---------------------------- MODULE Spec2Model ----------------------------
(***************************************************************************)
(* A model of the mchess engine core.                                      *)
(*                                                                         *)
(*   Spec       the iterative-deepening alpha-beta search of search.rs     *)
(*              (Minimax) over a small game graph standing for the Board.  *)
(*   FaultSpec  Spec plus an unmake_move that leaves a wrong hash, the     *)
(*              case the "POS CORRUPTED" checks of search.rs test for.     *)
(*   BoardSpec  chess positions, the move generators of src/pieces and     *)
(*              the perft driver of tests/special/perft.rs.                *)
(***************************************************************************)
EXTENDS Integers, Sequences, FiniteSets, TLC

VARIABLES
    \* ---- Minimax (search.rs 9-16) ----
    is_stopping,            \* Minimax.is_stopping
    nodes,                  \* Minimax.nodes
    transposition_table,    \* TranspositionTable.entries: slot -> <<>> | <<Node>>
    killer_moves,           \* Minimax.killer_moves: row -> <<slot0, slot1>>
    evaluation_cache,       \* EvalCache.entries: slot -> [hash, result]
    move_evaluation_cache,  \* Minimax.move_evaluation_cache: move -> <<>> | <<score>>
    \* ---- the board the search runs on ----
    game_board,             \* [pos, hash]: the position and Board.hash
    scenario,               \* the static evaluation of every position
    \* ---- control state of iterative_deepening / search / quiescence ----
    pc,                     \* position inside iterative_deepening
    stack,                  \* call stack of search / quiescence frames
    ret,                    \* <<>> | <<SearchResult>> handed back by the last return
    id,                     \* locals of iterative_deepening
    returned,               \* <<>> | <<SearchResult>> returned by iterative_deepening
    \* ---- history variables (observations, not program state) ----
    obs,
    \* ---- the chess board and the perft tests ----
    board,                  \* Board: mailbox, rights, clocks, hash, check and pin caches
    perft_stack,            \* call stack of perft frames
    perft_ret,              \* << >> | <<count>> handed back by the last return of perft
    test                    \* the test driving perft: its case, its results

search_vars == << is_stopping, nodes, transposition_table, killer_moves,
                  evaluation_cache, move_evaluation_cache, game_board, scenario,
                  pc, stack, ret, id, returned, obs >>

board_vars == << board, perft_stack, perft_ret, test >>

vars == << search_vars, board_vars >>

-----------------------------------------------------------------------------
(* Numbers of search.rs and of const.rs                                    *)

\* f64::INFINITY; every score of the model is far below it
Inf == 1000000

\* the initial aspiration half-width, search.rs 209
ASPIRATION_WINDOW == 25

\* the depth budget handed to quiescence, search.rs 273
QUIESCENCE_DEPTH == 8

\* rows of the killer table, search.rs 113
KILLER_ROWS == 100

\* const.rs is not part of the sources at hand; the values below are chosen
\* to keep the order the code relies on
\* (KILLER_MOVE_VALUE - 1000 > 0, PV_MOVE above every other term).
MAX_WINDOW_WIDTH == 60
DEFAULT_MARGIN == 30
PV_MOVE == 20000
KILLER_MOVE_VALUE == 9000
CHECK_VALUE == 500

\* the two direct-mapped tables hold 2^bits slots (mask = size - 1)
TTBits == 2
EvalCacheBits == 2

\* largest max_depth handed to iterative_deepening
MaxDepth == 4

\* Board.hash is kept to HashBits bits
HashBits == 5

-----------------------------------------------------------------------------
(* f64 arithmetic on scores: +-Inf absorb                                   *)

Neg(x) == 0 - x

FAdd(x, y) == IF x = Inf \/ x = Neg(Inf) THEN x ELSE x + y

FSub(x, y) == IF x = Inf \/ x = Neg(Inf) THEN x ELSE x - y

Min2(a, b) == IF a <= b THEN a ELSE b

-----------------------------------------------------------------------------
(* The board seen by the search: a small game graph.                       *)
(* Positions are numbered; Board.hash of position p is p itself, so that   *)
(* positions p and p + TTSize share a table slot.  Three games: the tree   *)
(* under position 0; under position 10 a line of nine captures in a row;    *)
(* under position 21 a reply with seven moves.                              *)

Positions == 0 .. 29

\* the positions iterative_deepening is called on
Roots == {0, 10, 21}

Labels == {"a", "b", "c", "d", "e", "f", "g"}

\* Board::get_total_legal_moves: the moves of a position, in generation order
LegalMoves(p) ==
    CASE p = 0 -> << [m |-> "a", to |-> 1], [m |-> "b", to |-> 2],
                     [m |-> "c", to |-> 3], [m |-> "d", to |-> 4],
                     [m |-> "e", to |-> 7], [m |-> "f", to |-> 8],
                     [m |-> "g", to |-> 9] >>
      [] p = 1 -> << [m |-> "a", to |-> 5], [m |-> "b", to |-> 6] >>
      [] p = 2 -> << [m |-> "a", to |-> 5], [m |-> "c", to |-> 7] >>
      [] p = 3 -> << [m |-> "b", to |-> 6], [m |-> "c", to |-> 7] >>
      [] p = 4 -> << [m |-> "a", to |-> 7], [m |-> "d", to |-> 6] >>
      [] p = 5 -> << [m |-> "c", to |-> 8], [m |-> "d", to |-> 9] >>
      [] p = 6 -> << [m |-> "c", to |-> 9], [m |-> "d", to |-> 8] >>
      [] p = 10 -> << [m |-> "a", to |-> 11] >>
      [] p \in 11 .. 19 -> << [m |-> "c", to |-> p + 1] >>
      [] p = 21 -> << [m |-> "a", to |-> 22] >>
      [] p = 22 -> << [m |-> "a", to |-> 23], [m |-> "b", to |-> 24],
                      [m |-> "c", to |-> 25], [m |-> "d", to |-> 26],
                      [m |-> "e", to |-> 27], [m |-> "f", to |-> 28],
                      [m |-> "g", to |-> 29] >>
      [] OTHER -> << >>

\* MoveType::Capture / MoveType::Check in Move.move_type
IsCapture(m) == m = "c"

GivesCheck(m) == m = "b"

\* Board::get_result() != ResultType::None
GameOver(p) == LegalMoves(p) = << >>

\* Board::get_check(turn).checked != 0
InCheck(p) == p \in {2, 6}

\* evaluation::evaluate(board).to_value(): the scenario lists it per position
\* under position 10 each capture wins material back for the side that
\* makes it, so neither side stands pat; the positions under 21 are level
StaticEval(sc, p) ==
    IF p < Len(sc) THEN sc[p + 1]
    ELSE IF p > 20 THEN 0
    ELSE IF p % 2 = 1 THEN 200 - 10 * p
    ELSE 10 * p - 210

\* the tables of static evaluations the search is run on
Scenarios ==
    { << 0, 10, -20, 30, 0, -40, 20, 50, -70, 80 >>,
      << 5, -60, 40, 0, 90, 10, -30, 0, 100, -100 >>,
      << 0, 0, -80, 80, -80, -80, 80, -80, -80, -80 >> }

\* the Zobrist hash of position p
HashOf(p) == p

\* Board::make_move: the hash is updated incrementally from the hash at hand
MakeMove(b, mv) ==
    [pos |-> mv.to,
     hash |-> (b.hash + HashOf(mv.to) + (2 ^ HashBits) - HashOf(b.pos)) % (2 ^ HashBits)]

\* Board::unmake_move: everything is restored from the MoveHistory snapshot
UnmakeMove(b, history) == history

\* an unmake_move that fails to restore the hash
CorruptUnmake(b, history) ==
    [history EXCEPT !.hash = (history.hash + 1) % (2 ^ HashBits)]

\* Board::get_total_legal_moves_quiescence(None, true): the captures
QuiescenceMoves(p) == SelectSeq(LegalMoves(p), LAMBDA mv : IsCapture(mv.m))

\* Move::mvv_lva, the check bonus and Move::ps_table of evaluate_move_base
EvaluateMoveBase(m, b) ==
    (IF IsCapture(m) THEN 100 ELSE 0) + (IF GivesCheck(m) THEN CHECK_VALUE ELSE 0)

-----------------------------------------------------------------------------
(* TranspositionTable (search.rs 39-69) and EvalCache (search.rs 71-105)    *)

\* TranspositionTable::new: size = num_entries.next_power_of_two()
TTSize == 2 ^ TTBits

\* EvalCache::new
EvalCacheSize == 2 ^ EvalCacheBits

\* (hash as usize) & self.mask, with mask = size - 1 and size a power of two
TTIndex(hash) == hash % TTSize

EvalCacheIndex(hash) == hash % EvalCacheSize

\* struct Node
Node(depth, node_type, score, best_move) ==
    [depth |-> depth, node_type |-> node_type, score |-> score, best_move |-> best_move]

\* a store that replaces whatever the slot holds
TTStoreAlways(tt, hash, node) == [tt EXCEPT ![TTIndex(hash)] = << node >>]

\* TranspositionTable::store
TTStore(tt, hash, node) ==
    LET index == TTIndex(hash) IN
    IF tt[index] # << >>
    THEN IF tt[index][1].depth <= node.depth
         THEN [tt EXCEPT ![index] = << node >>]
         ELSE tt
    ELSE [tt EXCEPT ![index] = << node >>]

\* TranspositionTable::get
TTGet(tt, hash) == tt[TTIndex(hash)]

\* EvalCache::get
EvalCacheGet(cache, hash) ==
    LET e == cache[EvalCacheIndex(hash)] IN
    IF e.hash = hash THEN << e.result >> ELSE << >>

\* EvalCache::store
EvalCacheStore(cache, hash, result) ==
    [cache EXCEPT ![EvalCacheIndex(hash)] = [hash |-> hash, result |-> result]]

\* EvalCache::contains
EvalCacheContains(cache, hash) == cache[EvalCacheIndex(hash)].hash = hash

\* Minimax::store_position
StorePosition(tt, hash, depth, node_type, score, best_move) ==
    TTStore(tt, hash, Node(depth, node_type, score, best_move))

\* check_position without the test entry.depth >= depth
CheckPositionAnyDepth(tt, hash, depth, alpha, beta) ==
    LET e == TTGet(tt, hash) IN
    IF e # << >>
    THEN CASE e[1].node_type = "PV" ->
                 << [value |-> e[1].score, best_move |-> e[1].best_move] >>
           [] e[1].node_type = "Cut" /\ e[1].score >= beta ->
                 << [value |-> beta, best_move |-> e[1].best_move] >>
           [] e[1].node_type = "All" /\ e[1].score <= alpha ->
                 << [value |-> alpha, best_move |-> e[1].best_move] >>
           [] OTHER -> << >>
    ELSE << >>

\* Minimax::check_position: <<>> | << [value, best_move] >>
CheckPosition(tt, hash, depth, alpha, beta) ==
    LET e == TTGet(tt, hash) IN
    IF e # << >> /\ e[1].depth >= depth
    THEN CASE e[1].node_type = "PV" ->
                 << [value |-> e[1].score, best_move |-> e[1].best_move] >>
           [] e[1].node_type = "Cut" /\ e[1].score >= beta ->
                 << [value |-> beta, best_move |-> e[1].best_move] >>
           [] e[1].node_type = "All" /\ e[1].score <= alpha ->
                 << [value |-> alpha, best_move |-> e[1].best_move] >>
           [] OTHER -> << >>
    ELSE << >>

\* Minimax::store_killer_move
StoreKillerMove(killers, m, depth) ==
    LET first_killer == killers[depth][1] IN
    IF first_killer # << >> /\ first_killer[1] # m
    THEN [killers EXCEPT ![depth] = << << m >>, first_killer >>]
    ELSE killers

\* Minimax::evaluate: the value returned (the stored result on a cache hit)
Evaluate(cache, sc, b) ==
    IF EvalCacheContains(cache, b.hash)
    THEN EvalCacheGet(cache, b.hash)[1]
    ELSE StaticEval(sc, b.pos)

\* Minimax::evaluate: the cache it leaves
EvaluateCache(cache, sc, b) ==
    IF EvalCacheContains(cache, b.hash)
    THEN cache
    ELSE EvalCacheStore(cache, b.hash, StaticEval(sc, b.pos))

-----------------------------------------------------------------------------
(* Move ordering (search.rs 541-592)                                        *)

\* Minimax::evaluate_move: the score of move m at board b, node depth `depth`
EvaluateMove(mec, tt, killers, m, b, depth) ==
    IF mec[m] # << >>
    THEN mec[m][1]
    ELSE LET node == TTGet(tt, b.hash)
             pv == IF node # << >> /\ node[1].best_move = << m >> THEN PV_MOVE ELSE 0
             k0 == IF ~IsCapture(m) /\ killers[depth][1] = << m >>
                   THEN KILLER_MOVE_VALUE ELSE 0
             k1 == IF ~IsCapture(m) /\ killers[depth][2] = << m >>
                   THEN KILLER_MOVE_VALUE - 1000 ELSE 0
         IN  EvaluateMoveBase(m, b) + pv + k0 + k1

\* the move_evaluation_cache after the moves of `moves` have been scored
EvaluateMoveCache(mec, tt, killers, moves, b, depth) ==
    [l \in Labels |->
        IF mec[l] = << >> /\ \E k \in 1 .. Len(moves) : moves[k].m = l
        THEN << EvaluateMove(mec, tt, killers, l, b, depth) >>
        ELSE mec[l]]

RECURSIVE InsertByScore(_, _, _)
\* slice::sort_by is stable: x goes behind every element scoring at least as much
InsertByScore(x, sorted, score) ==
    IF sorted = << >> THEN << x >>
    ELSE IF score[Head(sorted).m] >= score[x.m]
         THEN << Head(sorted) >> \o InsertByScore(x, Tail(sorted), score)
         ELSE << x >> \o sorted

RECURSIVE SortByScore(_, _)
SortByScore(moves, score) ==
    IF moves = << >> THEN << >>
    ELSE InsertByScore(moves[Len(moves)],
                       SortByScore(SubSeq(moves, 1, Len(moves) - 1), score), score)

\* what a call of sort sees: the score evaluate_move gives each move, and
\* the transposition-table entry of the board at that moment
SortScores(mec, tt, killers, moves, b, depth) ==
    [scores |-> [l \in {moves[k].m : k \in DOMAIN moves} |->
                    EvaluateMove(mec, tt, killers, l, b, depth)],
     entry |-> TTGet(tt, b.hash), pos |-> b.pos, depth |-> depth]

\* Minimax::sort: descending by evaluate_move
Sort(mec, tt, killers, moves, b, depth) ==
    SortByScore(moves, [l \in Labels |-> EvaluateMove(mec, tt, killers, l, b, depth)])

-----------------------------------------------------------------------------
(* Call frames of search (search.rs 263-432) and quiescence (434-490)       *)

Top == stack[Len(stack)]

Pop(st) == SubSeq(st, 1, Len(st) - 1)

SetTop(st, f) == [st EXCEPT ![Len(st)] = f]

SearchResult(value, moves) == [value |-> value, moves |-> moves]

\* a call search(board, depth, alpha, beta, maximizer) / quiescence(...)
Frame(fn, depth, alpha, beta, maximizer) ==
    [fn |-> fn, phase |-> "enter", depth |-> depth,
     alpha |-> alpha, beta |-> beta, maximizer |-> maximizer,
     start_hash |-> 0, moves |-> << >>, i |-> 1, new_depth |-> 0,
     value |-> 0, line |-> << >>, best_move |-> << >>, node_type |-> "All",
     history |-> << >>,
     \* the window as passed in, and whether is_stopping was set on entry
     alpha0 |-> alpha, beta0 |-> beta, stopped |-> FALSE]

\* return r to the caller
Return(r) == stack' = Pop(stack) /\ ret' = << r >>

\* call a child from the top frame, which becomes f
Call(f, child) == stack' = Append(SetTop(stack, f), child) /\ ret' = << >>

-----------------------------------------------------------------------------
(* Minimax::search (search.rs 263-432)                                       *)

\* what the hash comparisons of lines 337, 369, 391, 423 see
Diverged(f, b) == f.start_hash # b.hash

\* lines 264-316 / 377-383: from the entry to the first call or return
\* lines 341-364 / 395-418 on frame f, after the child returned `result` on move m
AfterChild(f, m, result) ==
    LET better == IF f.maximizer THEN result.value > f.value ELSE result.value < f.value
        value == IF better THEN result.value ELSE f.value
        best_move == IF better THEN << m >> ELSE f.best_move
        line == IF better THEN << m >> \o result.moves ELSE f.line
        improves == IF f.maximizer THEN value > f.alpha ELSE value < f.beta
        alpha == IF f.maximizer /\ improves THEN value ELSE f.alpha
        beta == IF ~f.maximizer /\ improves THEN value ELSE f.beta
        cutoff == beta <= alpha
    IN  [f EXCEPT !.value = value, !.best_move = best_move, !.line = line,
                  !.alpha = alpha, !.beta = beta,
                  !.node_type = IF cutoff THEN "Cut"
                                ELSE IF improves THEN "PV" ELSE f.node_type,
                  !.phase = IF cutoff THEN "store" ELSE "loop",
                  !.i = f.i + 1, !.history = << >>]

\* lines 263-316: the node on top of the stack passes the early returns of
\* search and calls sort on its legal moves
SearchSorts ==
    /\ stack # << >> /\ Top.fn = "search" /\ Top.phase = "enter"
    /\ ~is_stopping
    /\ ~(GameOver(game_board.pos) \/ Top.depth = 0)
    /\ LET f == Top
           b == game_board
           eval == Evaluate(evaluation_cache, scenario, b)
           margin == DEFAULT_MARGIN * f.depth
           hit == CheckPosition(transposition_table, b.hash, f.depth, f.alpha, f.beta)
       IN  /\ ~(/\ f.depth <= 2 /\ ~InCheck(b.pos)
                /\ \/ f.maximizer /\ eval + margin <= f.alpha
                   \/ ~f.maximizer /\ eval - margin >= f.beta)
           /\ ~(hit # << >> /\ hit[1].best_move # << >>)

\* lines 347-352 / 413-418: the move just unmade cuts the node on top of the
\* stack off, so store_killer_move is called
SearchCutsOff ==
    /\ stack # << >> /\ Top.fn = "search" /\ ret # << >>
    /\ \/ Top.phase = "research"
       \/ /\ Top.phase = "child"
          /\ ~(Top.maximizer /\ Top.new_depth < Top.depth - 1 /\ ret[1].value > Top.alpha)
    /\ AfterChild(Top, Top.moves[Top.i].m, ret[1]).phase = "store"

\* the rows `self.killer_moves[depth as usize]` the next step of the node on
\* top of the stack indexes: evaluate_move for a move that is no capture and
\* has no cached score (lines 542, 555-566), store_killer_move (line 146)
KillerRows ==
    IF SearchSorts
    THEN IF \E k \in 1 .. Len(LegalMoves(game_board.pos)) :
               LET m == LegalMoves(game_board.pos)[k].m
               IN  move_evaluation_cache[m] = << >> /\ ~IsCapture(m)
         THEN {Top.depth} ELSE {}
    ELSE IF SearchCutsOff THEN {Top.depth}
    ELSE {}

\* Vec indexing: a row outside the table is a panic
KillerIndexInBounds == \A row \in KillerRows : row \in DOMAIN killer_moves

\* the panic of an out-of-bounds index unwinds the search
KillerPanic ==
    /\ UNCHANGED board_vars
    /\ ~KillerIndexInBounds
    /\ pc' = "panic"
    /\ stack' = << >>
    /\ ret' = << >>
    /\ UNCHANGED << is_stopping, nodes, transposition_table, killer_moves,
                    evaluation_cache, move_evaluation_cache, game_board, scenario,
                    id, returned, obs >>

SearchEnter ==
    /\ UNCHANGED board_vars
    /\ stack # << >> /\ Top.fn = "search" /\ Top.phase = "enter"
    /\ KillerIndexInBounds
    /\ UNCHANGED << is_stopping, transposition_table, killer_moves, game_board,
                    scenario, pc, id, returned >>
    /\ LET f == Top
           b == game_board
           eval == Evaluate(evaluation_cache, scenario, b)
           margin == DEFAULT_MARGIN * f.depth
           futile == /\ f.depth <= 2 /\ ~InCheck(b.pos)
                     /\ \/ f.maximizer /\ eval + margin <= f.alpha
                        \/ ~f.maximizer /\ eval - margin >= f.beta
           hit == CheckPosition(transposition_table, b.hash, f.depth, f.alpha, f.beta)
           legal_moves == Sort(move_evaluation_cache, transposition_table,
                               killer_moves, LegalMoves(b.pos), b, f.depth)
           probe(outcome, value) ==
               [entry |-> TTGet(transposition_table, b.hash), depth |-> f.depth,
                alpha |-> f.alpha, beta |-> f.beta, outcome |-> outcome,
                value |-> value]
       IN
       IF is_stopping
       THEN /\ Return(SearchResult(0, << >>))
            /\ obs' = [obs EXCEPT !.partial = TRUE]
            /\ UNCHANGED << nodes, evaluation_cache, move_evaluation_cache >>
       ELSE
       /\ nodes' = nodes + 1
       /\ IF GameOver(b.pos) \/ f.depth = 0
          THEN /\ Call([f EXCEPT !.phase = "quiescence"],
                       Frame("quiescence", QUIESCENCE_DEPTH, f.alpha, f.beta, f.maximizer))
               /\ UNCHANGED << evaluation_cache, move_evaluation_cache, obs >>
          ELSE
          /\ evaluation_cache' = IF f.depth <= 2 /\ ~InCheck(b.pos)
                                 THEN EvaluateCache(evaluation_cache, scenario, b)
                                 ELSE evaluation_cache
          /\ IF futile
             THEN /\ Return(SearchResult(eval, << >>))
                  /\ UNCHANGED << move_evaluation_cache, obs >>
             ELSE IF hit # << >> /\ hit[1].best_move # << >>
             THEN /\ Return(SearchResult(hit[1].value, hit[1].best_move))
                  /\ obs' = [obs EXCEPT !.tt_hit =
                                << [pos |-> b.pos, move |-> hit[1].best_move[1]] >>,
                                        !.probe = << probe("return", hit[1].value) >>]
                  /\ UNCHANGED move_evaluation_cache
             ELSE /\ move_evaluation_cache' =
                        EvaluateMoveCache(move_evaluation_cache, transposition_table,
                                          killer_moves, LegalMoves(b.pos), b, f.depth)
                  /\ stack' = SetTop(stack,
                        [f EXCEPT !.phase = "loop", !.start_hash = b.hash,
                                  !.moves = legal_moves, !.i = 1,
                                  !.value = IF f.maximizer THEN Neg(Inf) ELSE Inf])
                  /\ ret' = << >>
                  /\ obs' = [obs EXCEPT !.probe = << probe("search", 0) >>,
                                        !.sort = << SortScores(move_evaluation_cache,
                                                       transposition_table, killer_moves,
                                                       LegalMoves(b.pos), b, f.depth) >>]

\* lines 271-276: the quiescence value comes back
SearchQuiescenceReturn ==
    /\ UNCHANGED board_vars
    /\ stack # << >> /\ Top.fn = "search" /\ Top.phase = "quiescence" /\ ret # << >>
    /\ Return(SearchResult(ret[1].value, << >>))
    /\ UNCHANGED << is_stopping, nodes, transposition_table, killer_moves,
                    evaluation_cache, move_evaluation_cache, game_board, scenario,
                    pc, id, returned, obs >>

\* lines 321-327: late-move reduction (maximizer only); i is the 0-based index
NewDepth(f, i, m) ==
    IF f.maximizer /\ i >= 3 /\ f.depth >= 3 /\ ~IsCapture(m) /\ ~GivesCheck(m)
    THEN f.depth - 1 - Min2(i \div 6, 2)
    ELSE f.depth - 1

\* lines 318-330 / 385-388: make the next move and search the child
SearchMakeMove ==
    /\ UNCHANGED board_vars
    /\ stack # << >> /\ Top.fn = "search" /\ Top.phase = "loop"
    /\ Top.i <= Len(Top.moves)
    /\ LET f == Top
           mv == f.moves[f.i]
           new_depth == NewDepth(f, f.i - 1, mv.m)
       IN  /\ game_board' = MakeMove(game_board, mv)
           /\ Call([f EXCEPT !.phase = "child", !.history = << game_board >>,
                             !.new_depth = new_depth],
                   Frame("search", new_depth, f.alpha, f.beta, ~f.maximizer))
    /\ UNCHANGED << is_stopping, nodes, transposition_table, killer_moves,
                    evaluation_cache, move_evaluation_cache, scenario, pc, id,
                    returned, obs >>

\* lines 332-334: a reduced search that beat alpha is repeated at full depth
SearchResearch ==
    /\ UNCHANGED board_vars
    /\ stack # << >> /\ Top.fn = "search" /\ Top.phase = "child" /\ ret # << >>
    /\ Top.maximizer /\ Top.new_depth < Top.depth - 1 /\ ret[1].value > Top.alpha
    /\ Call([Top EXCEPT !.phase = "research"],
            Frame("search", Top.depth - 1, Top.alpha, Top.beta, ~Top.maximizer))
    /\ UNCHANGED << is_stopping, nodes, transposition_table, killer_moves,
                    evaluation_cache, move_evaluation_cache, game_board, scenario,
                    pc, id, returned, obs >>

\* lines 336-364 / 390-418 with b the board unmake_move leaves
AfterUnmake(b) ==
    /\ stack # << >> /\ Top.fn = "search" /\ ret # << >>
    /\ \/ Top.phase = "research"
       \/ /\ Top.phase = "child"
          /\ ~(Top.maximizer /\ Top.new_depth < Top.depth - 1 /\ ret[1].value > Top.alpha)
    /\ KillerIndexInBounds
    /\ LET f == Top
           m == f.moves[f.i].m
           g == AfterChild(f, m, ret[1])
       IN  /\ game_board' = b
           /\ obs' = [obs EXCEPT !.diverged = obs.diverged \/ Diverged(f, b),
                                 !.cutoff = IF g.phase = "store"
                                            THEN << [move |-> m, depth |-> f.depth] >>
                                            ELSE obs.cutoff]
           /\ killer_moves' = IF g.phase = "store"
                              THEN StoreKillerMove(killer_moves, m, f.depth)
                              ELSE killer_moves
           /\ stack' = SetTop(stack, g)
           /\ ret' = << >>
    /\ UNCHANGED << is_stopping, nodes, transposition_table, evaluation_cache,
                    move_evaluation_cache, scenario, pc, id, returned >>

\* lines 336-364 / 390-418: unmake the move, compare the hash, update the node
SearchUnmakeMove ==
    /\ UNCHANGED board_vars
    /\ stack # << >> /\ Top.history # << >>
    /\ AfterUnmake(UnmakeMove(game_board, Top.history[1]))

\* the same step when unmake_move restores everything but the hash: the
\* make/unmake defect the comparisons of lines 337 and 391 look for
SearchUnmakeMoveCorrupt ==
    /\ UNCHANGED board_vars
    /\ stack # << >> /\ Top.history # << >> /\ ~obs.diverged
    /\ AfterUnmake(CorruptUnmake(game_board, Top.history[1]))

\* lines 367-376 / 421-430: store the node and return it
SearchStore ==
    /\ UNCHANGED board_vars
    /\ stack # << >> /\ Top.fn = "search"
    /\ \/ Top.phase = "store"
       \/ Top.phase = "loop" /\ Top.i > Len(Top.moves)
    /\ LET f == Top IN
       /\ transposition_table' = StorePosition(transposition_table, game_board.hash,
                                     f.depth, f.node_type, f.value, f.best_move)
       /\ obs' = [obs EXCEPT !.diverged = obs.diverged \/ Diverged(f, game_board),
                             !.store = << [hash |-> game_board.hash,
                                           node |-> Node(f.depth, f.node_type, f.value,
                                                         f.best_move),
                                           before |-> transposition_table] >>,
                             !.node = << [pos |-> game_board.pos, depth |-> f.depth,
                                          maximizer |-> f.maximizer,
                                          node_type |-> f.node_type,
                                          score |-> f.value,
                                          partial |-> obs.partial] >>]
       /\ Return(SearchResult(f.value, f.line))
    /\ UNCHANGED << is_stopping, nodes, killer_moves, evaluation_cache,
                    move_evaluation_cache, game_board, scenario, pc, id, returned >>

-----------------------------------------------------------------------------
(* Minimax::quiescence (search.rs 434-490)                                   *)

\* a stand-pat test that returns the evaluation itself
StandPatSoft(maximizer, stand_pat, alpha, beta) ==
    IF maximizer /\ stand_pat >= beta THEN << stand_pat >>
    ELSE IF ~maximizer /\ stand_pat <= alpha THEN << stand_pat >>
    ELSE << >>

\* lines 439-441 / 468-470: << >> | << the value returned at once >>
StandPat(maximizer, stand_pat, alpha, beta) ==
    IF maximizer /\ stand_pat >= beta THEN << beta >>
    ELSE IF ~maximizer /\ stand_pat <= alpha THEN << alpha >>
    ELSE << >>

\* what a quiescence call returning `value` from frame f leaves in obs
QuiescenceDone(f, stand_pat, value) ==
    [obs EXCEPT !.quiescence =
        << [alpha |-> f.alpha0, beta |-> f.beta0, maximizer |-> f.maximizer,
            stand_pat |-> stand_pat, searched |-> f.i - 1, value |-> value] >>]

\* lines 435-448 / 465-473: stand pat, then the sorted captures
QuiescenceEnter ==
    /\ UNCHANGED board_vars
    /\ stack # << >> /\ Top.fn = "quiescence" /\ Top.phase = "enter"
    /\ nodes' = nodes + 1
    /\ evaluation_cache' = EvaluateCache(evaluation_cache, scenario, game_board)
    /\ LET f == Top
           b == game_board
           stand_pat == Evaluate(evaluation_cache, scenario, b)
           captures == QuiescenceMoves(b.pos)
           sorted == Sort(move_evaluation_cache, transposition_table, killer_moves,
                          captures, b, 0)
           cut == StandPat(f.maximizer, stand_pat, f.alpha, f.beta)
       IN
       IF cut # << >>
       THEN /\ Return(SearchResult(cut[1], << >>))
            /\ obs' = QuiescenceDone(f, stand_pat, cut[1])
            /\ UNCHANGED move_evaluation_cache
       ELSE /\ obs' = [obs EXCEPT !.sort = << SortScores(move_evaluation_cache,
                                                transposition_table, killer_moves,
                                                captures, b, 0) >>]
            /\ move_evaluation_cache' =
                   EvaluateMoveCache(move_evaluation_cache, transposition_table,
                                     killer_moves, captures, b, 0)
            /\ stack' = SetTop(stack,
                   [f EXCEPT !.phase = "loop", !.moves = sorted, !.i = 1,
                             !.stopped = is_stopping,
                             !.alpha = IF f.maximizer /\ stand_pat > f.alpha
                                       THEN stand_pat ELSE f.alpha,
                             !.beta = IF ~f.maximizer /\ stand_pat < f.beta
                                      THEN stand_pat ELSE f.beta])
            /\ ret' = << >>
    /\ UNCHANGED << is_stopping, transposition_table, killer_moves, game_board,
                    scenario, pc, id, returned >>

\* lines 450-452 / 475-477: make a capture and recurse with depth - 1
QuiescenceMakeMove ==
    /\ UNCHANGED board_vars
    /\ stack # << >> /\ Top.fn = "quiescence" /\ Top.phase = "loop"
    /\ Top.i <= Len(Top.moves)
    /\ LET f == Top
           mv == f.moves[f.i]
       IN  /\ game_board' = MakeMove(game_board, mv)
           /\ Call([f EXCEPT !.phase = "child", !.history = << game_board >>],
                   Frame("quiescence", f.depth - 1, f.alpha, f.beta, ~f.maximizer))
    /\ UNCHANGED << is_stopping, nodes, transposition_table, killer_moves,
                    evaluation_cache, move_evaluation_cache, scenario, pc, id,
                    returned, obs >>

\* lines 453-460 / 478-485: unmake, then raise alpha (lower beta) to the score
QuiescenceUnmakeMove ==
    /\ UNCHANGED board_vars
    /\ stack # << >> /\ Top.fn = "quiescence" /\ Top.phase = "child" /\ ret # << >>
    /\ LET f == Top
           score == ret[1].value
           alpha == IF f.maximizer /\ score > f.alpha THEN score ELSE f.alpha
           beta == IF ~f.maximizer /\ score < f.beta THEN score ELSE f.beta
       IN  /\ game_board' = UnmakeMove(game_board, f.history[1])
           /\ stack' = SetTop(stack,
                  [f EXCEPT !.alpha = alpha, !.beta = beta, !.history = << >>,
                            !.phase = IF beta <= alpha THEN "store" ELSE "loop",
                            !.i = f.i + 1])
           /\ ret' = << >>
    /\ UNCHANGED << is_stopping, nodes, transposition_table, killer_moves,
                    evaluation_cache, move_evaluation_cache, scenario, pc, id,
                    returned, obs >>

\* lines 463 / 488: the value of the node
QuiescenceReturn ==
    /\ UNCHANGED board_vars
    /\ stack # << >> /\ Top.fn = "quiescence"
    /\ \/ Top.phase = "store"
       \/ Top.phase = "loop" /\ Top.i > Len(Top.moves)
    /\ LET value == IF Top.maximizer THEN Top.alpha ELSE Top.beta IN
       /\ Return(SearchResult(value, << >>))
       /\ obs' = QuiescenceDone(Top, Evaluate(evaluation_cache, scenario, game_board),
                                value)
    /\ UNCHANGED << is_stopping, nodes, transposition_table, killer_moves,
                    evaluation_cache, move_evaluation_cache, game_board, scenario,
                    pc, id, returned >>

-----------------------------------------------------------------------------
(* Minimax::iterative_deepening (search.rs 194-261)                          *)

\* lines 195-200: the depth-1 search over the full window
IterativeDeepeningTo(depths) ==
    /\ UNCHANGED board_vars
    /\ pc = "idle"
    /\ \E max_depth \in depths :
         id' = [id EXCEPT !.max_depth = max_depth]
    /\ move_evaluation_cache' = [l \in Labels |-> << >>]
    /\ stack' = << Frame("search", 1, Neg(Inf), Inf, TRUE) >>
    /\ ret' = << >>
    /\ pc' = "depth1"
    /\ obs' = [obs EXCEPT !.partial = FALSE]
    /\ UNCHANGED << is_stopping, nodes, transposition_table, killer_moves,
                    evaluation_cache, game_board, scenario, returned >>

IterativeDeepening == IterativeDeepeningTo(1 .. MaxDepth)

\* lines 201-203: its result seeds best_result
DepthOneDone ==
    /\ UNCHANGED board_vars
    /\ pc = "depth1" /\ stack = << >> /\ ret # << >>
    /\ id' = [id EXCEPT !.best_result = ret[1], !.depth = 2]
    /\ obs' = [obs EXCEPT !.best_partial = obs.partial]
    /\ ret' = << >>
    /\ pc' = "for"
    /\ UNCHANGED << is_stopping, nodes, transposition_table, killer_moves,
                    evaluation_cache, move_evaluation_cache, game_board, scenario,
                    stack, returned >>

\* lines 206-214: the next depth opens its window around the previous score
NextDepth ==
    /\ UNCHANGED board_vars
    /\ pc = "for" /\ id.depth <= id.max_depth
    /\ move_evaluation_cache' = [l \in Labels |-> << >>]
    /\ LET alpha == FSub(id.best_result.value, ASPIRATION_WINDOW)
           beta == FAdd(id.best_result.value, ASPIRATION_WINDOW)
       IN  /\ id' = [id EXCEPT !.window = ASPIRATION_WINDOW, !.alpha = alpha,
                               !.beta = beta]
           /\ stack' = << Frame("search", id.depth, alpha, beta, TRUE) >>
    /\ ret' = << >>
    /\ pc' = "aspiration"
    /\ obs' = [obs EXCEPT !.asp_exit = "none", !.partial = FALSE, !.researches = 0]
    /\ UNCHANGED << is_stopping, nodes, transposition_table, killer_moves,
                    evaluation_cache, game_board, scenario, returned >>

\* a widening that moves the failing bound but never doubles the window
WidenSameWindow(l, value) ==
    IF value <= l.alpha THEN [l EXCEPT !.alpha = FSub(l.alpha, l.window)]
    ELSE IF value >= l.beta THEN [l EXCEPT !.beta = FAdd(l.beta, l.window)]
    ELSE l

\* lines 227-241: the window after a search that failed low or high
Widen(l, value) ==
    IF value <= l.alpha
    THEN [l EXCEPT !.alpha = IF l.window * 2 > MAX_WINDOW_WIDTH
                             THEN Neg(Inf) ELSE FSub(l.alpha, l.window),
                   !.window = l.window * 2]
    ELSE IF value >= l.beta
    THEN [l EXCEPT !.beta = IF l.window * 2 > MAX_WINDOW_WIDTH
                            THEN Inf ELSE FAdd(l.beta, l.window),
                   !.window = l.window * 2]
    ELSE l

\* lines 216-246: one pass of the aspiration loop after search returned
AspirationResult ==
    /\ UNCHANGED board_vars
    /\ pc = "aspiration" /\ stack = << >> /\ ret # << >>
    /\ LET result == ret[1]
           wide == Widen(id, result.value)
       IN
       IF is_stopping
       THEN /\ pc' = "elapsed"
            /\ obs' = [obs EXCEPT !.asp_exit = "stop"]
            /\ UNCHANGED << id, stack >>
       ELSE IF result.value > id.alpha /\ result.value < id.beta
       THEN /\ id' = [id EXCEPT !.best_result = result]
            /\ pc' = "elapsed"
            /\ obs' = [obs EXCEPT !.asp_exit = "commit", !.best_partial = obs.partial]
            /\ UNCHANGED stack
       ELSE IF wide.alpha = Neg(Inf) /\ wide.beta = Inf
       THEN /\ id' = wide
            /\ pc' = "elapsed"
            /\ obs' = [obs EXCEPT !.asp_exit = "open"]
            /\ UNCHANGED stack
       ELSE /\ id' = wide
            /\ stack' = << Frame("search", id.depth, wide.alpha, wide.beta, TRUE) >>
            /\ pc' = "aspiration"
            /\ obs' = [obs EXCEPT !.researches = obs.researches + 1, !.partial = FALSE]
    /\ ret' = << >>
    /\ UNCHANGED << is_stopping, nodes, transposition_table, killer_moves,
                    evaluation_cache, move_evaluation_cache, game_board, scenario,
                    returned >>

\* lines 248-254: three quarters of the time budget spent ends the loop
ElapsedCheck ==
    /\ UNCHANGED board_vars
    /\ pc = "elapsed"
    /\ \E expired \in BOOLEAN :
         IF expired
         THEN pc' = "finish" /\ UNCHANGED id
         ELSE pc' = "for" /\ id' = [id EXCEPT !.depth = id.depth + 1]
    /\ UNCHANGED << is_stopping, nodes, transposition_table, killer_moves,
                    evaluation_cache, move_evaluation_cache, game_board, scenario,
                    stack, ret, returned, obs >>

\* lines 256-260: clear the flag and return best_result
Finish ==
    /\ UNCHANGED board_vars
    /\ \/ pc = "finish"
       \/ pc = "for" /\ id.depth > id.max_depth
    /\ is_stopping' = FALSE
    /\ returned' = << id.best_result >>
    /\ pc' = "done"
    /\ UNCHANGED << nodes, transposition_table, killer_moves, evaluation_cache,
                    move_evaluation_cache, game_board, scenario, stack, ret, id, obs >>

\* Minimax::stop (search.rs 186-188), called by the front end at any moment
Stop ==
    /\ UNCHANGED board_vars
    /\ pc # "done" /\ ~is_stopping
    /\ is_stopping' = TRUE
    /\ UNCHANGED << nodes, transposition_table, killer_moves, evaluation_cache,
                    move_evaluation_cache, game_board, scenario, pc, stack, ret, id,
                    returned, obs >>

-----------------------------------------------------------------------------
(* The chess board.  board.rs, moves.rs, piece.rs and pieces/bitboard.rs are *)
(* not part of src/: Position, Vector, Piece, Move, Pin, CheckInfo and the   *)
(* Board methods below follow the specification's data model and the way     *)
(* src/pieces and the tests use them.                                        *)

\* Position {x: file, y: rank} as the bit index 8 * y + x of to_bitboard;
\* y = 0 is the eighth rank (RANK_8), y = 7 the first (RANK_1)
Squares == 0 .. 63

File(s) == s % 8

Rank(s) == s \div 8

Square(y, x) == 8 * y + x

\* Board::in_bounds(rank, file)
in_bounds(y, x) == y \in 0 .. 7 /\ x \in 0 .. 7

\* Position::clamp: a coordinate off the board becomes one in_bounds rejects
clamp(v) == IF v \in 0 .. 7 THEN v ELSE 8

Vector(x, y) == [x |-> x, y |-> y]

\* Vector::is_parallel_to
is_parallel_to(v, w) == v.x * w.y = v.y * w.x

signum(n) == IF n > 0 THEN 1 ELSE IF n < 0 THEN -1 ELSE 0

\* a piece is its FEN letter; "." is an empty mailbox entry
WhiteLetters == {"P", "N", "B", "R", "Q", "K"}

BlackLetters == {"p", "n", "b", "r", "q", "k"}

\* Piece.color
color_of(ch) == IF ch \in WhiteLetters THEN "White" ELSE "Black"

\* Piece.piece_type
piece_type_of(ch) ==
    CASE ch \in {"P", "p"} -> "Pawn"
      [] ch \in {"N", "n"} -> "Knight"
      [] ch \in {"B", "b"} -> "Bishop"
      [] ch \in {"R", "r"} -> "Rook"
      [] ch \in {"Q", "q"} -> "Queen"
      [] ch \in {"K", "k"} -> "King"

Letter(color, kind) ==
    CHOOSE ch \in WhiteLetters \cup BlackLetters :
        color_of(ch) = color /\ piece_type_of(ch) = kind

\* PieceColor::opposite
opposite(color) == IF color = "White" THEN "Black" ELSE "White"

\* the mailbox entry of a square
At(b, s) == b.squares[s + 1]

\* Board::get_piece_at(rank, file): None off the board or on an empty square
get_piece_at(b, y, x) ==
    IF in_bounds(y, x) /\ At(b, Square(y, x)) # "."
    THEN << [letter |-> At(b, Square(y, x)),
             color |-> color_of(At(b, Square(y, x))),
             piece_type |-> piece_type_of(At(b, Square(y, x))),
             pos |-> Square(y, x)] >>
    ELSE << >>

\* Board::square_free(rank, file, color): on the board and empty or held by
\* the other colour
square_free(b, y, x, color) ==
    /\ in_bounds(y, x)
    /\ \/ At(b, Square(y, x)) = "."
       \/ color_of(At(b, Square(y, x))) # color

\* the occupancy bitboards, as sets of bit indexes
all_pieces(b) == {s \in Squares : At(b, s) # "."}

white_pieces(b) == {s \in Squares : At(b, s) \in WhiteLetters}

black_pieces(b) == {s \in Squares : At(b, s) \in BlackLetters}

empty_squares(b) == {s \in Squares : At(b, s) = "."}

pieces_of(b, color) == IF color = "White" THEN white_pieces(b) ELSE black_pieces(b)

\* the king bitboard of a colour (Board::get_king)
king_of(b, color) == {s \in Squares : At(b, s) = Letter(color, "King")}

\* Board::is_pinned(rank, file): the direction of the pin on that square
is_pinned(b, y, x) ==
    LET ps == {p \in b.pins : p.position = Square(y, x)}
    IN  IF ps = {} THEN << >> ELSE << (CHOOSE p \in ps : TRUE).dir >>

\* a Move of a knight, bishop, rook or queen from one square to another
PieceMove(b, from, to) ==
    LET other == get_piece_at(b, Rank(to), File(to))
    IN  [from |-> from, to |-> to,
         move_type |-> IF other # << >> THEN {"Capture"} ELSE {"Normal"},
         captured |-> other,
         promote_to |-> "",
         piece_color |-> color_of(At(b, from)),
         piece_type |-> piece_type_of(At(b, from)),
         with |-> << >>]

-----------------------------------------------------------------------------
(* src/pieces/knight.rs                                                      *)

KNIGHT_DIRECTIONS ==
    { Vector(2, -1), Vector(2, 1), Vector(1, 2), Vector(-1, 2),
      Vector(-2, 1), Vector(-2, -1), Vector(-1, -2), Vector(1, -2) }

\* get_legal_moves_knight without the double_checked return of line 23
get_legal_moves_knight_unchecked(b, s) ==
    LET file == File(s)
        rank == Rank(s)
        color == color_of(At(b, s))
    IN  IF is_pinned(b, rank, file) # << >> THEN {}
        ELSE { PieceMove(b, s, Square(clamp(rank + dir.y), clamp(file + dir.x))) :
                 dir \in { d \in KNIGHT_DIRECTIONS :
                             square_free(b, clamp(rank + d.y), clamp(file + d.x), color) } }

\* get_legal_moves_knight (16-54)
get_legal_moves_knight(b, s) ==
    LET file == File(s)
        rank == Rank(s)
        color == color_of(At(b, s))
    IN  IF is_pinned(b, rank, file) # << >> THEN {}
        ELSE IF b.check[color].double_checked THEN {}
        ELSE { PieceMove(b, s, Square(clamp(rank + dir.y), clamp(file + dir.x))) :
                 dir \in { d \in KNIGHT_DIRECTIONS :
                             square_free(b, clamp(rank + d.y), clamp(file + d.x), color) } }

-----------------------------------------------------------------------------
(* src/pieces/rook.rs                                                        *)

ROOK_DIRECTIONS == { Vector(-1, 0), Vector(1, 0), Vector(0, -1), Vector(0, 1) }

\* get_legal_moves_rook (7-50).  The inner loop leaves a direction only when
\* the target is off the board (line 23): every square of the line that
\* square_free accepts is pushed, whatever stands before it.
get_legal_moves_rook(b, s) ==
    LET file == File(s)
        rank == Rank(s)
        color == color_of(At(b, s))
    IN  IF is_pinned(b, rank, file) # << >> THEN {}
        ELSE IF b.check[color].double_checked THEN {}
        ELSE { PieceMove(b, s, Square(clamp(rank + t[1].y * t[2]), clamp(file + t[1].x * t[2]))) :
                 t \in { u \in ROOK_DIRECTIONS \X (1 .. 8) :
                           /\ in_bounds(clamp(rank + u[1].y * u[2]), clamp(file + u[1].x * u[2]))
                           /\ square_free(b, clamp(rank + u[1].y * u[2]),
                                          clamp(file + u[1].x * u[2]), color) } }

\* the walk of get_pins_rook and get_pins_bishop along one direction: only
\* kings are looked at (rook.rs 105-116, bishop.rs 303-315)
RECURSIVE PinsKingWalk(_, _, _, _, _)
PinsKingWalk(b, s, dir, i, enemy_piece) ==
    LET t_file == clamp(File(s) + dir.x * i)
        t_rank == clamp(Rank(s) + dir.y * i)
        other == get_piece_at(b, t_rank, t_file)
    IN  IF i > 8 \/ ~in_bounds(t_rank, t_file) THEN {}
        ELSE IF other # << >> /\ other[1].piece_type = "King"
        THEN IF other[1].color = color_of(At(b, s)) THEN {}
             ELSE IF enemy_piece # << >>
             THEN { [position |-> enemy_piece[1].pos, to |-> Square(t_rank, t_file),
                     color |-> color_of(At(b, s)), dir |-> dir, is_phantom |-> FALSE] }
                  \cup PinsKingWalk(b, s, dir, i + 1, enemy_piece)
             ELSE PinsKingWalk(b, s, dir, i + 1, other)
        ELSE PinsKingWalk(b, s, dir, i + 1, enemy_piece)

\* get_pins_rook (90-121)
get_pins_rook(b, s) ==
    UNION { PinsKingWalk(b, s, dir, 1, << >>) : dir \in ROOK_DIRECTIONS }

-----------------------------------------------------------------------------
(* src/pieces/bishop.rs                                                      *)

BISHOP_DIRECTIONS == { Vector(-1, -1), Vector(-1, 1), Vector(1, -1), Vector(1, 1) }

\* the loop conditions of the ray walks: the bit is not on the edge the
\* shift would leave by (H_FILE_INV / A_FILE_INV, RANK_1 / RANK_8)
RayOnBoard(ray, shift) ==
    CASE shift = 9 -> File(ray) # 7 /\ Rank(ray) # 7
      [] shift = 7 -> File(ray) # 0 /\ Rank(ray) # 7
      [] shift = -7 -> File(ray) # 7 /\ Rank(ray) # 0
      [] shift = -9 -> File(ray) # 0 /\ Rank(ray) # 0
      [] shift = 1 -> File(ray) # 7
      [] shift = -1 -> File(ray) # 0
      [] shift = 8 -> Rank(ray) # 7
      [] shift = -8 -> Rank(ray) # 0

\* one while loop of generate_bishop_rays (15-26, 30-41, 45-56, 60-71)
RECURSIVE RayWalk(_, _, _, _, _, _, _)
RayWalk(ray, shift, occupied, enemy_king, let_through, found_king, acc) ==
    IF ~RayOnBoard(ray, shift) THEN acc
    ELSE LET r == ray + shift
             next == [attacks |-> acc.attacks \cup {r},
                      obscured |-> IF r \notin enemy_king /\ found_king
                                   THEN acc.obscured \cup {r} ELSE acc.obscured]
         IN  IF r \in occupied /\ (r \notin enemy_king \/ ~let_through) THEN next
             ELSE RayWalk(r, shift, occupied, enemy_king, let_through,
                          found_king \/ r \in enemy_king, next)

Rays(pos, shifts, occupied, enemy_king, let_through) ==
    LET walk(shift) == RayWalk(pos, shift, occupied, enemy_king, let_through, FALSE,
                               [attacks |-> {}, obscured |-> {}])
    IN  [attacks |-> UNION { walk(sh).attacks : sh \in shifts },
         obscured |-> UNION { walk(sh).obscured : sh \in shifts }]

\* generate_bishop_rays (9-74)
generate_bishop_rays(pos, occupied, enemy_king, let_through) ==
    Rays(pos, {9, 7, -7, -9}, occupied, enemy_king, let_through)

\* generate_rook_rays (imported by queen.rs line 6; its body is not in src)
generate_rook_rays(pos, occupied, enemy_king, let_through) ==
    Rays(pos, {1, -1, 8, -8}, occupied, enemy_king, let_through)

\* get_legal_moves_bishop_bitboard without the is_parallel_to test of line 117
get_legal_moves_bishop_bitboard_unfiltered(b, s) ==
    LET color == color_of(At(b, s))
        pin_dir == is_pinned(b, Rank(s), File(s))
        attacks == generate_bishop_rays(s, all_pieces(b), {}, FALSE).attacks
        enemy == pieces_of(b, opposite(color))
        valid == attacks \cap (empty_squares(b) \cup enemy)
        valid_moves == IF pin_dir # << >>
                       THEN IF pin_dir[1].x # 0 /\ pin_dir[1].y # 0 THEN valid ELSE {}
                       ELSE valid
    IN  IF b.check[color].double_checked THEN {}
        ELSE { PieceMove(b, s, to) : to \in valid_moves }

\* get_legal_moves_bishop_bitboard (76-143)
get_legal_moves_bishop_bitboard(b, s) ==
    LET color == color_of(At(b, s))
        pin_dir == is_pinned(b, Rank(s), File(s))
        attacks == generate_bishop_rays(s, all_pieces(b), {}, FALSE).attacks
        enemy == pieces_of(b, opposite(color))
        valid == attacks \cap (empty_squares(b) \cup enemy)
        valid_moves == IF pin_dir # << >>
                       THEN IF pin_dir[1].x # 0 /\ pin_dir[1].y # 0 THEN valid ELSE {}
                       ELSE valid
        kept(to) == \/ pin_dir = << >>
                    \/ ~(pin_dir[1].x # 0 /\ pin_dir[1].y # 0)
                    \/ is_parallel_to(Vector(signum(File(to) - File(s)),
                                             signum(Rank(to) - Rank(s))), pin_dir[1])
    IN  IF b.check[color].double_checked THEN {}
        ELSE { PieceMove(b, s, to) : to \in { t \in valid_moves : kept(t) } }

\* get_legal_moves_bishop (145-194), the mailbox generator
get_legal_moves_bishop(b, s) ==
    LET file == File(s)
        rank == Rank(s)
        color == color_of(At(b, s))
        pin_dir == is_pinned(b, rank, file)
        skipped(dir) == /\ pin_dir # << >>
                        /\ \/ pin_dir[1].x # 0 /\ dir.y # 0
                           \/ pin_dir[1].y # 0 /\ dir.x # 0
        \* the squares before the first occupied one, and that one
        open(dir, i) == \A j \in 1 .. i - 1 :
                            get_piece_at(b, clamp(rank + dir.y * j), clamp(file + dir.x * j)) = << >>
    IN  IF b.check[color].double_checked THEN {}
        ELSE { PieceMove(b, s, Square(clamp(rank + t[1].y * t[2]), clamp(file + t[1].x * t[2]))) :
                 t \in { u \in BISHOP_DIRECTIONS \X (1 .. 8) :
                           /\ ~skipped(u[1])
                           /\ in_bounds(clamp(rank + u[1].y * u[2]), clamp(file + u[1].x * u[2]))
                           /\ open(u[1], u[2])
                           /\ square_free(b, clamp(rank + u[1].y * u[2]),
                                          clamp(file + u[1].x * u[2]), color) } }

\* get_pins_bishop (288-320)
get_pins_bishop(b, s) ==
    UNION { PinsKingWalk(b, s, dir, 1, << >>) : dir \in BISHOP_DIRECTIONS }

-----------------------------------------------------------------------------
(* src/pieces/queen.rs                                                       *)

QUEEN_DIRECTIONS == BISHOP_DIRECTIONS \cup ROOK_DIRECTIONS

\* generate_queen_rays (19-24)
generate_queen_rays(pos, occupied, enemy_king, let_through) ==
    LET bishop == generate_bishop_rays(pos, occupied, enemy_king, let_through)
        rook == generate_rook_rays(pos, occupied, enemy_king, let_through)
    IN  [attacks |-> bishop.attacks \cup rook.attacks,
         obscured |-> bishop.obscured \cup rook.obscured]

\* get_legal_moves_queen (26-89)
get_legal_moves_queen(b, s) ==
    LET color == color_of(At(b, s))
        pin_dir == is_pinned(b, Rank(s), File(s))
        check_info == b.check[color]
        valid_squares == IF check_info.block_mask # {} THEN check_info.block_mask ELSE Squares
        attacks == generate_queen_rays(s, all_pieces(b), {}, FALSE).attacks
        enemy == pieces_of(b, opposite(color))
        valid_moves == (attacks \cap (empty_squares(b) \cup enemy)) \cap valid_squares
        kept(to) == \/ pin_dir = << >>
                    \/ is_parallel_to(Vector(signum(File(to) - File(s)),
                                             signum(Rank(to) - Rank(s))), pin_dir[1])
    IN  IF check_info.double_checked THEN {}
        ELSE { PieceMove(b, s, to) : to \in { t \in valid_moves : kept(t) } }

\* the walk of get_pins_queen along one direction (154-191)
RECURSIVE PinsQueenWalk(_, _, _, _, _, _, _)
PinsQueenWalk(b, s, dir, i, enemy_piece, potential_pin, is_phantom) ==
    LET t_file == clamp(File(s) + dir.x * i)
        t_rank == clamp(Rank(s) + dir.y * i)
        other == get_piece_at(b, t_rank, t_file)
    IN  IF i > 8 \/ ~in_bounds(t_rank, t_file) THEN {}
        ELSE IF other = << >>
        THEN PinsQueenWalk(b, s, dir, i + 1, enemy_piece, potential_pin, is_phantom)
        ELSE IF other[1].color = color_of(At(b, s))
        THEN IF b.target_piece = << other[1].pos >>
             THEN PinsQueenWalk(b, s, dir, i + 1, enemy_piece, potential_pin, TRUE)
             ELSE {}
        ELSE IF other[1].piece_type = "King"
        THEN IF potential_pin
             THEN { [position |-> enemy_piece[1].pos, to |-> Square(t_rank, t_file),
                     color |-> color_of(At(b, s)), dir |-> dir, is_phantom |-> is_phantom] }
             ELSE {}
        ELSE IF potential_pin THEN {}
        ELSE PinsQueenWalk(b, s, dir, i + 1, other, TRUE, is_phantom)

\* get_pins_queen (143-195)
get_pins_queen(b, s) ==
    UNION { PinsQueenWalk(b, s, dir, 1, << >>, FALSE, FALSE) : dir \in QUEEN_DIRECTIONS }

-----------------------------------------------------------------------------
(* Board: attacks, check and pin caches, Zobrist hash (board.rs, not in src) *)

Colors == {"White", "Black"}

\* the rank step of a pawn of that colour: White moves towards y = 0
forward(color) == IF color = "White" THEN -1 ELSE 1

\* the squares a piece standing on s attacks under an occupancy
AttackSet(letter, s, occupied) ==
    LET kind == piece_type_of(letter)
        steps(dirs) == { Square(Rank(s) + d.y, File(s) + d.x) :
                           d \in { e \in dirs : in_bounds(Rank(s) + e.y, File(s) + e.x) } }
    IN  CASE kind = "Pawn" ->
                steps({ Vector(-1, forward(color_of(letter))),
                        Vector(1, forward(color_of(letter))) })
          [] kind = "Knight" -> steps(KNIGHT_DIRECTIONS)
          [] kind = "King" -> steps(QUEEN_DIRECTIONS)
          [] kind = "Bishop" -> generate_bishop_rays(s, occupied, {}, FALSE).attacks
          [] kind = "Rook" -> generate_rook_rays(s, occupied, {}, FALSE).attacks
          [] kind = "Queen" -> generate_queen_rays(s, occupied, {}, FALSE).attacks

\* the squares the pieces of a colour attack under an occupancy
controlled_squares(b, color, occupied) ==
    UNION { AttackSet(At(b, s), s, occupied) : s \in pieces_of(b, color) }

abs(n) == IF n < 0 THEN -n ELSE n

\* the squares strictly between two squares of one rank, file or diagonal
between(a, c) ==
    LET dx == signum(File(c) - File(a))
        dy == signum(Rank(c) - Rank(a))
        n == IF abs(File(c) - File(a)) > abs(Rank(c) - Rank(a))
             THEN abs(File(c) - File(a)) ELSE abs(Rank(c) - Rank(a))
    IN  { Square(Rank(a) + dy * i, File(a) + dx * i) : i \in 1 .. n - 1 }

\* the enemy pieces giving check to the king of a colour
checkers(b, color) ==
    { s \in pieces_of(b, opposite(color)) :
        AttackSet(At(b, s), s, all_pieces(b)) \cap king_of(b, color) # {} }

\* CheckInfo of a colour: block_mask is the checker's square and, for a
\* sliding checker, the squares between it and the king; 0 without a single
\* checker
check_info_of(b, color) ==
    LET cs == checkers(b, color)
        one == CHOOSE s \in cs : TRUE
        king == CHOOSE k \in king_of(b, color) : TRUE
    IN  [checked |-> cs # {},
         double_checked |-> Cardinality(cs) >= 2,
         block_mask |-> IF Cardinality(cs) # 1 THEN {}
                        ELSE IF piece_type_of(At(b, one)) \in {"Bishop", "Rook", "Queen"}
                        THEN {one} \cup between(one, king)
                        ELSE {one}]

\* Board::update_check
update_check(b) == [b EXCEPT !.check = [c \in Colors |-> check_info_of(b, c)]]

\* Board::get_check(color)
get_check(b, color) == b.check[color]

\* the pins of one piece, by the generator of its kind
get_pins(b, s) ==
    CASE piece_type_of(At(b, s)) = "Rook" -> get_pins_rook(b, s)
      [] piece_type_of(At(b, s)) = "Bishop" -> get_pins_bishop(b, s)
      [] piece_type_of(At(b, s)) = "Queen" -> get_pins_queen(b, s)
      [] OTHER -> {}

\* Board::update_pins
update_pins(b) == [b EXCEPT !.pins = UNION { get_pins(b, s) : s \in all_pieces(b) }]

\* the castling rights as the index of their Zobrist key
castling_index(rights) ==
    (IF "K" \in rights THEN 1 ELSE 0) + (IF "Q" \in rights THEN 2 ELSE 0)
    + (IF "k" \in rights THEN 4 ELSE 0) + (IF "q" \in rights THEN 8 ELSE 0)

\* a hash is the set of Zobrist keys xor-ed into it
xor(h, keys) == (h \ keys) \cup (keys \ h)

piece_key(letter, s) == << letter, s >>

castling_key(rights) == << "castling", castling_index(rights) >>

en_passant_key(ep) == IF ep = << >> THEN {} ELSE { << "ep", File(ep[1]) >> }

side_key == << "side", 0 >>

\* the hash of a position computed from nothing
zobrist(b) ==
    { piece_key(At(b, s), s) : s \in all_pieces(b) }
    \cup { castling_key(b.castling) }
    \cup en_passant_key(b.en_passant)
    \cup (IF b.turn = "Black" THEN { side_key } ELSE {})

-----------------------------------------------------------------------------
(* Pawn and king generators, the move list (pieces/pawn.rs, pieces/king.rs,  *)
(* board.rs: not in src; after the specification's move generation section)  *)

PromotionLetters == {"Q", "R", "B", "N"}

\* a pawn Move; promote is "" or the letter of the promotion piece
PawnMove(b, from, to, flags, captured, promote) ==
    [from |-> from, to |-> to,
     move_type |-> flags \cup (IF promote # "" THEN {"Promotion"} ELSE {}),
     captured |-> captured,
     promote_to |-> promote,
     piece_color |-> color_of(At(b, from)),
     piece_type |-> "Pawn",
     with |-> << >>]

\* the mailbox after an en-passant capture from one square to the target
en_passant_squares(b, from, to) ==
    [i \in 1 .. 64 |->
        IF i = from + 1 \/ i = Square(Rank(from), File(to)) + 1 THEN "."
        ELSE IF i = to + 1 THEN At(b, from)
        ELSE b.squares[i]]

\* the discovered-check guard of an en-passant capture: with both pawns off
\* their squares no enemy rook, bishop or queen attacks the own king
en_passant_safe(b, from, to) ==
    LET color == color_of(At(b, from))
        after == [b EXCEPT !.squares = en_passant_squares(b, from, to)]
    IN  \A s \in pieces_of(after, opposite(color)) :
            piece_type_of(At(after, s)) \in {"Bishop", "Rook", "Queen"}
            => AttackSet(At(after, s), s, all_pieces(after)) \cap king_of(after, color) = {}

\* get_legal_moves_pawn
get_legal_moves_pawn(b, s) ==
    LET color == color_of(At(b, s))
        file == File(s)
        rank == Rank(s)
        dy == forward(color)
        pin_dir == is_pinned(b, rank, file)
        along_pin(to) == \/ pin_dir = << >>
                         \/ is_parallel_to(Vector(signum(File(to) - file),
                                                  signum(Rank(to) - rank)), pin_dir[1])
        start == IF color = "White" THEN 6 ELSE 1
        last == IF color = "White" THEN 0 ELSE 7
        promotions(to) == IF Rank(to) = last THEN PromotionLetters ELSE {""}
        one == Square(rank + dy, file)
        two == Square(rank + 2 * dy, file)
        push == IF in_bounds(rank + dy, file) /\ At(b, one) = "."
                THEN { PawnMove(b, s, one, {"Normal"}, << >>, p) : p \in promotions(one) }
                ELSE {}
        double == IF rank = start /\ At(b, one) = "." /\ At(b, two) = "."
                  THEN { PawnMove(b, s, two, {"DoublePawnPush"}, << >>, "") }
                  ELSE {}
        diagonals == { Square(rank + dy, x) : x \in {file - 1, file + 1} \cap (0 .. 7) }
        captures == UNION { { PawnMove(b, s, to, {"Capture"},
                                       get_piece_at(b, Rank(to), File(to)), p) :
                                p \in promotions(to) } :
                            to \in { t \in diagonals : At(b, t) # "."
                                                       /\ color_of(At(b, t)) # color } }
        en_passant == { PawnMove(b, s, to, {"EnPassant", "Capture"},
                                 get_piece_at(b, rank, File(to)), "") :
                          to \in { t \in diagonals : b.en_passant = << t >>
                                                     /\ en_passant_safe(b, s, t) } }
    IN  IF in_bounds(rank + dy, file)
        THEN { m \in push \cup double \cup captures \cup en_passant : along_pin(m.to) }
        ELSE {}

\* the castling moves of the king of a colour
castling_moves(b, color, attacked) ==
    LET y == IF color = "White" THEN 7 ELSE 0
        king == Square(y, 4)
        clear(files) == \A x \in files : At(b, Square(y, x)) = "."
        safe(files) == \A x \in files : Square(y, x) \notin attacked
        castle(to_file, rook_from, rook_to) ==
            [from |-> king, to |-> Square(y, to_file), move_type |-> {"Castling"},
             captured |-> << >>, promote_to |-> "", piece_color |-> color,
             piece_type |-> "King",
             with |-> << [from |-> Square(y, rook_from), to |-> Square(y, rook_to)] >>]
        king_side == IF /\ (IF color = "White" THEN "K" ELSE "k") \in b.castling
                        /\ At(b, Square(y, 7)) = Letter(color, "Rook")
                        /\ clear({5, 6}) /\ safe({5, 6})
                     THEN { castle(6, 7, 5) } ELSE {}
        queen_side == IF /\ (IF color = "White" THEN "Q" ELSE "q") \in b.castling
                         /\ At(b, Square(y, 0)) = Letter(color, "Rook")
                         /\ clear({1, 2, 3}) /\ safe({2, 3})
                      THEN { castle(2, 0, 3) } ELSE {}
    IN  IF At(b, king) = Letter(color, "King") /\ ~b.check[color].checked
        THEN king_side \cup queen_side
        ELSE {}

\* get_legal_moves_king: the adjacent squares that are free and not attacked
\* once the king is off the board, and the castling moves
get_legal_moves_king(b, s) ==
    LET color == color_of(At(b, s))
        attacked == controlled_squares(b, opposite(color), all_pieces(b) \ {s})
        targets == { Square(Rank(s) + d.y, File(s) + d.x) :
                       d \in { e \in QUEEN_DIRECTIONS :
                                 square_free(b, Rank(s) + e.y, File(s) + e.x, color) } }
    IN  { [PieceMove(b, s, to) EXCEPT !.piece_type = "King"] : to \in targets \ attacked }
        \cup castling_moves(b, color, attacked)

\* Board::get_legal_moves: the generator of the piece's kind
get_legal_moves(b, s) ==
    CASE piece_type_of(At(b, s)) = "Pawn" -> get_legal_moves_pawn(b, s)
      [] piece_type_of(At(b, s)) = "Knight" -> get_legal_moves_knight(b, s)
      [] piece_type_of(At(b, s)) = "Bishop" -> get_legal_moves_bishop_bitboard(b, s)
      [] piece_type_of(At(b, s)) = "Rook" -> get_legal_moves_rook(b, s)
      [] piece_type_of(At(b, s)) = "Queen" -> get_legal_moves_queen(b, s)
      [] piece_type_of(At(b, s)) = "King" -> get_legal_moves_king(b, s)

\* the moves of the pieces of a colour other than the king
non_king_moves(b, color) ==
    UNION { get_legal_moves(b, s) : s \in pieces_of(b, color) \ king_of(b, color) }

king_moves(b, color) ==
    UNION { get_legal_moves_king(b, s) : s \in king_of(b, color) }

\* Board::get_block_moves(color): the non-king moves that end in the block
\* mask, and the en-passant capture of a checking pawn
get_block_moves(b, color) ==
    { m \in non_king_moves(b, color) :
        \/ m.to \in b.check[color].block_mask
        \/ "EnPassant" \in m.move_type /\ m.captured[1].pos \in b.check[color].block_mask }

\* Board::get_total_legal_moves(None)
get_total_legal_moves(b) ==
    LET color == b.turn
    IN  IF b.check[color].double_checked THEN king_moves(b, color)
        ELSE IF b.check[color].checked
        THEN king_moves(b, color) \cup get_block_moves(b, color)
        ELSE king_moves(b, color) \cup non_king_moves(b, color)

-----------------------------------------------------------------------------
(* Board::make_move and Board::unmake_move (board.rs, not in src; after the  *)
(* specification's make / unmake section)                                    *)

\* the mailbox with some squares rewritten: changes is a set of <<square, letter>>
put(squares, changes) ==
    [i \in 1 .. 64 |->
        IF \E c \in changes : c[1] + 1 = i
        THEN (CHOOSE c \in changes : c[1] + 1 = i)[2]
        ELSE squares[i]]

\* the castling rights a move takes away: the mover's when its king moves,
\* a side's when a rook leaves or is captured on its corner
lost_rights(m) ==
    (IF m.piece_type = "King"
     THEN (IF m.piece_color = "White" THEN {"K", "Q"} ELSE {"k", "q"}) ELSE {})
    \cup (IF 63 \in {m.from, m.to} THEN {"K"} ELSE {})
    \cup (IF 56 \in {m.from, m.to} THEN {"Q"} ELSE {})
    \cup (IF 7 \in {m.from, m.to} THEN {"k"} ELSE {})
    \cup (IF 0 \in {m.from, m.to} THEN {"q"} ELSE {})

\* the letter standing on m.to after the move
arriving(m) ==
    IF m.promote_to # ""
    THEN Letter(m.piece_color, piece_type_of(m.promote_to))
    ELSE Letter(m.piece_color, m.piece_type)

\* BoardHistory: the snapshot make_move returns
history_of(b) ==
    [castling |-> b.castling, en_passant |-> b.en_passant,
     halfmove_clock |-> b.halfmove_clock, hash |-> b.hash,
     check |-> b.check, pins |-> b.pins]

\* Board::make_move(m): the board after the move
make_move(b, m) ==
    LET mover == Letter(m.piece_color, m.piece_type)
        rook == Letter(m.piece_color, "Rook")
        castling == b.castling \ lost_rights(m)
        en_passant == IF "DoublePawnPush" \in m.move_type
                      THEN << (m.from + m.to) \div 2 >> ELSE << >>
        squares == put(b.squares,
                       { << m.from, "." >>, << m.to, arriving(m) >> }
                       \cup (IF m.captured # << >> /\ m.captured[1].pos # m.to
                             THEN { << m.captured[1].pos, "." >> } ELSE {})
                       \cup (IF m.with # << >>
                             THEN { << m.with[1].from, "." >>, << m.with[1].to, rook >> }
                             ELSE {}))
        keys == { piece_key(mover, m.from), piece_key(arriving(m), m.to), side_key }
                \cup (IF m.captured # << >>
                      THEN { piece_key(m.captured[1].letter, m.captured[1].pos) } ELSE {})
                \cup (IF m.with # << >>
                      THEN { piece_key(rook, m.with[1].from), piece_key(rook, m.with[1].to) }
                      ELSE {})
        moved == [b EXCEPT
                    !.squares = squares,
                    !.castling = castling,
                    !.en_passant = en_passant,
                    !.halfmove_clock = IF m.piece_type = "Pawn" \/ m.captured # << >>
                                       THEN 0 ELSE @ + 1,
                    !.fullmove_number = IF m.piece_color = "Black" THEN @ + 1 ELSE @,
                    !.turn = opposite(m.piece_color),
                    !.hash = xor(xor(xor(xor(xor(@, keys),
                                             { castling_key(b.castling) }),
                                         { castling_key(castling) }),
                                     en_passant_key(b.en_passant)),
                                 en_passant_key(en_passant))]
    IN  update_check(update_pins(moved))

\* unmake_move putting every captured piece back on the destination square
unmake_move_on_destination(b, m, history) ==
    LET mover == Letter(m.piece_color, m.piece_type)
        rook == Letter(m.piece_color, "Rook")
        squares == put(b.squares,
                       { << m.from, mover >> }
                       \cup (IF m.captured # << >>
                             THEN { << m.to, m.captured[1].letter >> }
                             ELSE { << m.to, "." >> })
                       \cup (IF m.with # << >>
                             THEN { << m.with[1].to, "." >>, << m.with[1].from, rook >> }
                             ELSE {}))
    IN  [b EXCEPT
            !.squares = squares,
            !.castling = history.castling,
            !.en_passant = history.en_passant,
            !.halfmove_clock = history.halfmove_clock,
            !.fullmove_number = IF m.piece_color = "Black" THEN @ - 1 ELSE @,
            !.turn = m.piece_color,
            !.hash = history.hash,
            !.check = history.check,
            !.pins = history.pins]

\* Board::unmake_move(m, history): the board before the move
unmake_move(b, m, history) ==
    LET mover == Letter(m.piece_color, m.piece_type)
        rook == Letter(m.piece_color, "Rook")
        squares == put(b.squares,
                       { << m.from, mover >> }
                       \cup (IF m.captured # << >>
                             THEN { << m.captured[1].pos, m.captured[1].letter >> } ELSE {})
                       \cup (IF m.captured = << >> \/ m.captured[1].pos # m.to
                             THEN { << m.to, "." >> } ELSE {})
                       \cup (IF m.with # << >>
                             THEN { << m.with[1].to, "." >>, << m.with[1].from, rook >> }
                             ELSE {}))
    IN  [b EXCEPT
            !.squares = squares,
            !.castling = history.castling,
            !.en_passant = history.en_passant,
            !.halfmove_clock = history.halfmove_clock,
            !.fullmove_number = IF m.piece_color = "Black" THEN @ - 1 ELSE @,
            !.turn = m.piece_color,
            !.hash = history.hash,
            !.check = history.check,
            !.pins = history.pins]

\* Board::from_fen: the fields of the FEN record, the hash and the caches
from_fen(fen) ==
    LET placed == [squares |-> fen.squares, turn |-> fen.turn, castling |-> fen.castling,
                   en_passant |-> fen.en_passant, halfmove_clock |-> fen.halfmove_clock,
                   fullmove_number |-> fen.fullmove_number, hash |-> {},
                   check |-> [c \in Colors |-> [checked |-> FALSE, double_checked |-> FALSE,
                                                block_mask |-> {}]],
                   pins |-> {}, target_piece |-> << >>]
    IN  update_check(update_pins([placed EXCEPT !.hash = zobrist(placed)]))

-----------------------------------------------------------------------------
(* The positions of tests/special/perft.rs and tests/special/blocks.rs, and  *)
(* positions with a double check and with pins, as FEN fields.               *)

\* rnbqkbnr/pppppppp/8/8/8/8/PPPPPPPP/RNBQKBNR w KQkq - 0 1
\* (tests/special/perft.rs 49: the start position)
FenStart ==
    [squares |-> <<
        "r", "n", "b", "q", "k", "b", "n", "r",
        "p", "p", "p", "p", "p", "p", "p", "p",
        ".", ".", ".", ".", ".", ".", ".", ".",
        ".", ".", ".", ".", ".", ".", ".", ".",
        ".", ".", ".", ".", ".", ".", ".", ".",
        ".", ".", ".", ".", ".", ".", ".", ".",
        "P", "P", "P", "P", "P", "P", "P", "P",
        "R", "N", "B", "Q", "K", "B", "N", "R"
     >>,
     turn |-> "White", castling |-> {"K", "Q", "k", "q"}, en_passant |-> << >>,
     halfmove_clock |-> 0, fullmove_number |-> 1]

\* r3k2r/p1ppqpb1/bn2pnp1/3PN3/1p2P3/2N2Q1p/PPPBBPPP/R3K2R w KQkq - 0 1
\* (tests/special/perft.rs 70)
FenKiwipete ==
    [squares |-> <<
        "r", ".", ".", ".", "k", ".", ".", "r",
        "p", ".", "p", "p", "q", "p", "b", ".",
        "b", "n", ".", ".", "p", "n", "p", ".",
        ".", ".", ".", "P", "N", ".", ".", ".",
        ".", "p", ".", ".", "P", ".", ".", ".",
        ".", ".", "N", ".", ".", "Q", ".", "p",
        "P", "P", "P", "B", "B", "P", "P", "P",
        "R", ".", ".", ".", "K", ".", ".", "R"
     >>,
     turn |-> "White", castling |-> {"K", "Q", "k", "q"}, en_passant |-> << >>,
     halfmove_clock |-> 0, fullmove_number |-> 1]

\* 8/2p5/3p4/KP5r/1R3p1k/8/4P1P1/8 w - - 0 1
\* (tests/special/perft.rs 75)
FenPosition3 ==
    [squares |-> <<
        ".", ".", ".", ".", ".", ".", ".", ".",
        ".", ".", "p", ".", ".", ".", ".", ".",
        ".", ".", ".", "p", ".", ".", ".", ".",
        "K", "P", ".", ".", ".", ".", ".", "r",
        ".", "R", ".", ".", ".", "p", ".", "k",
        ".", ".", ".", ".", ".", ".", ".", ".",
        ".", ".", ".", ".", "P", ".", "P", ".",
        ".", ".", ".", ".", ".", ".", ".", "."
     >>,
     turn |-> "White", castling |-> {}, en_passant |-> << >>,
     halfmove_clock |-> 0, fullmove_number |-> 1]

\* r3k2r/Pppp1ppp/1b3nbN/nP6/BBP1P3/q4N2/Pp1P2PP/R2Q1RK1 w kq - 0 1
\* (tests/special/perft.rs 80)
FenPosition4 ==
    [squares |-> <<
        "r", ".", ".", ".", "k", ".", ".", "r",
        "P", "p", "p", "p", ".", "p", "p", "p",
        ".", "b", ".", ".", ".", "n", "b", "N",
        "n", "P", ".", ".", ".", ".", ".", ".",
        "B", "B", "P", ".", "P", ".", ".", ".",
        "q", ".", ".", ".", ".", "N", ".", ".",
        "P", "p", ".", "P", ".", ".", "P", "P",
        "R", ".", ".", "Q", ".", "R", "K", "."
     >>,
     turn |-> "White", castling |-> {"k", "q"}, en_passant |-> << >>,
     halfmove_clock |-> 0, fullmove_number |-> 1]

\* rnbq1k1r/pp1Pbppp/2p5/8/2B5/8/PPP1NnPP/RNBQK2R w KQ - 1 8
\* (tests/special/perft.rs 84)
FenPosition5 ==
    [squares |-> <<
        "r", "n", "b", "q", ".", "k", ".", "r",
        "p", "p", ".", "P", "b", "p", "p", "p",
        ".", ".", "p", ".", ".", ".", ".", ".",
        ".", ".", ".", ".", ".", ".", ".", ".",
        ".", ".", "B", ".", ".", ".", ".", ".",
        ".", ".", ".", ".", ".", ".", ".", ".",
        "P", "P", "P", ".", "N", "n", "P", "P",
        "R", "N", "B", "Q", "K", ".", ".", "R"
     >>,
     turn |-> "White", castling |-> {"K", "Q"}, en_passant |-> << >>,
     halfmove_clock |-> 1, fullmove_number |-> 8]

\* 8/8/8/1Ppp3r/1K3p1k/8/4P1P1/1R6 w - c6 0 3
\* (tests/special/blocks.rs 78)
FenEnPassantCheck ==
    [squares |-> <<
        ".", ".", ".", ".", ".", ".", ".", ".",
        ".", ".", ".", ".", ".", ".", ".", ".",
        ".", ".", ".", ".", ".", ".", ".", ".",
        ".", "P", "p", "p", ".", ".", ".", "r",
        ".", "K", ".", ".", ".", "p", ".", "k",
        ".", ".", ".", ".", ".", ".", ".", ".",
        ".", ".", ".", ".", "P", ".", "P", ".",
        ".", "R", ".", ".", ".", ".", ".", "."
     >>,
     turn |-> "White", castling |-> {}, en_passant |-> << 18 >>,
     halfmove_clock |-> 0, fullmove_number |-> 3]

\* rnbqkbnr/ppp1pppp/3p4/8/2P5/8/PP1PPPPP/RNBQKBNR w KQkq - 0 1
\* (tests/special/blocks.rs 7, 30)
FenBlocks ==
    [squares |-> <<
        "r", "n", "b", "q", "k", "b", "n", "r",
        "p", "p", "p", ".", "p", "p", "p", "p",
        ".", ".", ".", "p", ".", ".", ".", ".",
        ".", ".", ".", ".", ".", ".", ".", ".",
        ".", ".", "P", ".", ".", ".", ".", ".",
        ".", ".", ".", ".", ".", ".", ".", ".",
        "P", "P", ".", "P", "P", "P", "P", "P",
        "R", "N", "B", "Q", "K", "B", "N", "R"
     >>,
     turn |-> "White", castling |-> {"K", "Q", "k", "q"}, en_passant |-> << >>,
     halfmove_clock |-> 0, fullmove_number |-> 1]

\* 4r2k/3p4/4B3/8/4K3/8/8/8 b - - 0 1
\* (the double push d7-d5 checks the king; the rook stands behind the bishop)
FenPinnedCapture ==
    [squares |-> <<
        ".", ".", ".", ".", "r", ".", ".", "k",
        ".", ".", ".", "p", ".", ".", ".", ".",
        ".", ".", ".", ".", "B", ".", ".", ".",
        ".", ".", ".", ".", ".", ".", ".", ".",
        ".", ".", ".", ".", "K", ".", ".", ".",
        ".", ".", ".", ".", ".", ".", ".", ".",
        ".", ".", ".", ".", ".", ".", ".", ".",
        ".", ".", ".", ".", ".", ".", ".", "."
     >>,
     turn |-> "Black", castling |-> {}, en_passant |-> << >>,
     halfmove_clock |-> 0, fullmove_number |-> 1]

\* 4r2k/8/8/4n3/8/8/8/RNBQK3 b Q - 0 1
\* (the knight's move uncovers the rook: a double check)
FenDoubleCheck ==
    [squares |-> <<
        ".", ".", ".", ".", "r", ".", ".", "k",
        ".", ".", ".", ".", ".", ".", ".", ".",
        ".", ".", ".", ".", ".", ".", ".", ".",
        ".", ".", ".", ".", "n", ".", ".", ".",
        ".", ".", ".", ".", ".", ".", ".", ".",
        ".", ".", ".", ".", ".", ".", ".", ".",
        ".", ".", ".", ".", ".", ".", ".", ".",
        "R", "N", "B", "Q", "K", ".", ".", "."
     >>,
     turn |-> "Black", castling |-> {"Q"}, en_passant |-> << >>,
     halfmove_clock |-> 0, fullmove_number |-> 1]

\* 4q2k/8/8/q7/4Q3/2B5/8/4K3 w - - 0 1
\* (a bishop and a queen pinned by queens)
FenQueenPins ==
    [squares |-> <<
        ".", ".", ".", ".", "q", ".", ".", "k",
        ".", ".", ".", ".", ".", ".", ".", ".",
        ".", ".", ".", ".", ".", ".", ".", ".",
        "q", ".", ".", ".", ".", ".", ".", ".",
        ".", ".", ".", ".", "Q", ".", ".", ".",
        ".", ".", "B", ".", ".", ".", ".", ".",
        ".", ".", ".", ".", ".", ".", ".", ".",
        ".", ".", ".", ".", "K", ".", ".", "."
     >>,
     turn |-> "White", castling |-> {}, en_passant |-> << >>,
     halfmove_clock |-> 0, fullmove_number |-> 1]

\* 4q2k/8/8/q7/8/8/3NR3/4K3 w - - 0 1
\* (a knight and a rook pinned by queens)
FenQueenPinsKnight ==
    [squares |-> <<
        ".", ".", ".", ".", "q", ".", ".", "k",
        ".", ".", ".", ".", ".", ".", ".", ".",
        ".", ".", ".", ".", ".", ".", ".", ".",
        "q", ".", ".", ".", ".", ".", ".", ".",
        ".", ".", ".", ".", ".", ".", ".", ".",
        ".", ".", ".", ".", ".", ".", ".", ".",
        ".", ".", ".", "N", "R", ".", ".", ".",
        ".", ".", ".", ".", "K", ".", ".", "."
     >>,
     turn |-> "White", castling |-> {}, en_passant |-> << >>,
     halfmove_clock |-> 0, fullmove_number |-> 1]

-----------------------------------------------------------------------------
(* tests/special/perft.rs: perft and the tests that call it                  *)

\* the deepest perft a test case asks for
MaxPerftDepth == 2

\* the published counts test_perft (47-88) and test_split_perft (90-115)
\* assert, by position and depth
expected(name, depth) ==
    CASE name = "start" -> << 1, 20, 400, 8902, 197281 >>[depth + 1]
      [] name = "kiwipete" -> << 1, 48, 2039 >>[depth + 1]
      [] name = "position3" -> << 1, 14, 191 >>[depth + 1]
      [] name = "position4" -> << 1, 6, 264 >>[depth + 1]
      [] name = "position5" -> << 1, 44, 1486 >>[depth + 1]

Published == {"start", "kiwipete", "position3", "position4", "position5"}

Fens ==
    [start |-> FenStart, kiwipete |-> FenKiwipete, position3 |-> FenPosition3,
     position4 |-> FenPosition4, position5 |-> FenPosition5,
     en_passant_check |-> FenEnPassantCheck, blocks |-> FenBlocks,
     pinned_capture |-> FenPinnedCapture, double_check |-> FenDoubleCheck,
     queen_pins |-> FenQueenPins, queen_pins_knight |-> FenQueenPinsKnight]

\* the calls of perft the tests make: a position and a depth
PerftCases ==
    { c \in [name : DOMAIN Fens, depth : 0 .. MaxPerftDepth] :
        /\ c.name = "start" => c.depth <= 4
        /\ c.name \in Published \ {"start"} => c.depth \in 1 .. 2
        /\ c.name \notin Published => c.depth \in 1 .. 2 }

\* the order perft walks a move list in
move_key(m) ==
    (m.from * 64 + m.to) * 5
    + (CASE m.promote_to = "Q" -> 1 [] m.promote_to = "R" -> 2
         [] m.promote_to = "B" -> 3 [] m.promote_to = "N" -> 4 [] OTHER -> 0)

RECURSIVE move_list(_)
move_list(moves) ==
    IF moves = {} THEN << >>
    ELSE LET m == CHOOSE x \in moves : \A y \in moves : move_key(x) <= move_key(y)
         IN  << m >> \o move_list(moves \ {m})

PerftTop == perft_stack[Len(perft_stack)]

PerftFrame(depth) ==
    [phase |-> "enter", depth |-> depth, moves |-> << >>, i |-> 1, nodes |-> 0,
     history |-> << >>, start |-> << >>]

\* perft line 14: board.unmake_move(&mov, &history)
perft_unmake(b, mov, history) == unmake_move(b, mov, history)

\* a test calls perft on its board (perft.rs 61, 71-86, 96-97)
TestPerft ==
    /\ test.pc \in {"idle", "done"} /\ Len(test.results) < 2
    /\ perft_stack' = << PerftFrame(test.depth) >>
    /\ perft_ret' = << >>
    /\ test' = [test EXCEPT !.pc = "running"]
    /\ UNCHANGED << board, search_vars >>

\* perft lines 4-7: the two base cases, or the move list
PerftEnter ==
    /\ perft_stack # << >> /\ PerftTop.phase = "enter"
    /\ LET f == PerftTop
           moves == get_total_legal_moves(board)
       IN  IF f.depth = 0
           THEN /\ perft_stack' = SubSeq(perft_stack, 1, Len(perft_stack) - 1)
                /\ perft_ret' = << 1 >>
           ELSE IF f.depth = 1
           THEN /\ perft_stack' = SubSeq(perft_stack, 1, Len(perft_stack) - 1)
                /\ perft_ret' = << Cardinality(moves) >>
           ELSE /\ perft_stack' = [perft_stack EXCEPT ![Len(perft_stack)] =
                                      [f EXCEPT !.phase = "loop", !.moves = move_list(moves),
                                                !.start = << board >>]]
                /\ perft_ret' = << >>
    /\ UNCHANGED << board, test, search_vars >>

\* perft lines 10-12: make the next move and call perft one ply deeper
PerftMakeMove ==
    /\ perft_stack # << >> /\ PerftTop.phase = "loop"
    /\ PerftTop.i <= Len(PerftTop.moves)
    /\ LET f == PerftTop
           mov == f.moves[f.i]
       IN  /\ board' = make_move(board, mov)
           /\ perft_stack' = Append([perft_stack EXCEPT ![Len(perft_stack)] =
                                        [f EXCEPT !.phase = "wait",
                                                  !.history = << history_of(board) >>]],
                                    PerftFrame(f.depth - 1))
    /\ UNCHANGED << perft_ret, test, search_vars >>

\* perft lines 13-14: add the count and unmake the move
PerftUnmakeMove ==
    /\ perft_stack # << >> /\ PerftTop.phase = "wait" /\ perft_ret # << >>
    /\ LET f == PerftTop
           mov == f.moves[f.i]
       IN  /\ board' = perft_unmake(board, mov, f.history[1])
           /\ perft_stack' = [perft_stack EXCEPT ![Len(perft_stack)] =
                                 [f EXCEPT !.phase = "loop", !.i = @ + 1,
                                           !.nodes = @ + perft_ret[1],
                                           !.history = << >>]]
           /\ test' = [test EXCEPT !.unmade = << mov >>]
    /\ perft_ret' = << >>
    /\ UNCHANGED search_vars

\* perft line 16: the loop is over
PerftReturn ==
    /\ perft_stack # << >> /\ PerftTop.phase = "loop"
    /\ PerftTop.i > Len(PerftTop.moves)
    /\ perft_stack' = SubSeq(perft_stack, 1, Len(perft_stack) - 1)
    /\ perft_ret' = << PerftTop.nodes >>
    /\ UNCHANGED << board, test, search_vars >>

\* the test takes the count perft returned
TestResult ==
    /\ test.pc = "running" /\ perft_stack = << >> /\ perft_ret # << >>
    /\ test' = [test EXCEPT !.pc = "done", !.results = Append(@, perft_ret[1])]
    /\ perft_ret' = << >>
    /\ UNCHANGED << board, perft_stack, search_vars >>

-----------------------------------------------------------------------------
(* Minimax::new (search.rs 108-117) and the specification                    *)

\* the board and the test before any test has run
BoardIdle(c) ==
    /\ board = from_fen(Fens[c.name])
    /\ perft_stack = << >>
    /\ perft_ret = << >>
    /\ test = [pc |-> "idle", name |-> c.name, depth |-> c.depth,
               start_hash |-> from_fen(Fens[c.name]).hash,
               results |-> << >>,      \* the counts of the runs of perft so far
               unmade |-> << >>]       \* the last move perft has unmade

SearchInitAt(root) ==
    /\ is_stopping = FALSE
    /\ nodes = 0
    /\ transposition_table = [i \in 0 .. TTSize - 1 |-> << >>]
    /\ killer_moves = [r \in 0 .. KILLER_ROWS - 1 |-> << << >>, << >> >>]
    /\ evaluation_cache = [i \in 0 .. EvalCacheSize - 1 |-> [hash |-> 0, result |-> 0]]
    /\ move_evaluation_cache = [l \in Labels |-> << >>]
    /\ game_board = [pos |-> root, hash |-> HashOf(root)]
    /\ pc = "idle"
    /\ stack = << >>
    /\ ret = << >>
    /\ id = [max_depth |-> 0, depth |-> 0, window |-> 0, alpha |-> 0, beta |-> 0,
             best_result |-> SearchResult(0, << >>)]
    /\ returned = << >>
    /\ obs = [tt_hit |-> << >>,        \* the last transposition-table hit returned
              diverged |-> FALSE,      \* a hash comparison after unmake_move failed
              partial |-> FALSE,       \* the running search cut a node short on stop
              best_partial |-> FALSE,  \* best_result comes from such a search
              asp_exit |-> "none",     \* how the last aspiration loop ended
              researches |-> 0,        \* re-searches of the current depth
              cutoff |-> << >>,        \* the last move that cut a search node off
              probe |-> << >>,         \* the last transposition-table probe of search
              store |-> << >>,         \* the last TranspositionTable::store call
              quiescence |-> << >>,    \* the last quiescence call that returned
              node |-> << >>,          \* the last node search stored, and where
              sort |-> << >>,          \* the scores of the last Minimax::sort call
              \* per hash, the result EvalCache::store last put in the slot
              \* the hash still holds
              stored |-> [h \in 0 .. 2 ^ HashBits - 1 |-> << >>]]

SearchInit == SearchInitAt(0)

\* the evaluations matter under position 0 only
Init ==
    /\ \E root \in Roots : SearchInitAt(root)
    /\ scenario \in Scenarios
    /\ game_board.pos # 0 => scenario = CHOOSE sc \in Scenarios : TRUE
    /\ BoardIdle([name |-> "start", depth |-> 0])

Next ==
    \/ IterativeDeepening
    \/ DepthOneDone
    \/ NextDepth
    \/ AspirationResult
    \/ ElapsedCheck
    \/ Finish
    \/ Stop
    \/ SearchEnter
    \/ SearchQuiescenceReturn
    \/ SearchMakeMove
    \/ SearchResearch
    \/ SearchUnmakeMove
    \/ SearchStore
    \/ QuiescenceEnter
    \/ QuiescenceMakeMove
    \/ QuiescenceUnmakeMove
    \/ QuiescenceReturn

Spec == Init /\ [][Next]_vars

FaultNext == Next \/ SearchUnmakeMoveCorrupt

FaultSpec == Init /\ [][FaultNext]_vars

\* the two tables on their own, under any sequence of store calls
TableHashes == {0, 1, 5}

TableNodes ==
    {Node(depth, node_type, 0, << "a" >>) :
         depth \in 1 .. MaxDepth, node_type \in {"PV", "Cut"}}

TableResults == {0, 7}

\* TranspositionTable::store(hash, node)
TTStoreCall ==
    /\ \E hash \in TableHashes, node \in TableNodes :
         /\ transposition_table' = TTStore(transposition_table, hash, node)
         /\ obs' = [obs EXCEPT !.store = << [hash |-> hash, node |-> node,
                                             before |-> transposition_table] >>]
    /\ UNCHANGED << is_stopping, nodes, killer_moves, evaluation_cache,
                    move_evaluation_cache, game_board, scenario, pc, stack, ret, id,
                    returned, board_vars >>

\* EvalCache::store(hash, result)
EvalCacheStoreCall ==
    /\ \E hash \in TableHashes, result \in TableResults :
         /\ evaluation_cache' = EvalCacheStore(evaluation_cache, hash, result)
         /\ obs' = [obs EXCEPT !.stored =
                [h \in DOMAIN obs.stored |->
                    IF h = hash THEN << result >>
                    ELSE IF h % EvalCacheSize = hash % EvalCacheSize THEN << >>
                    ELSE obs.stored[h]]]
    /\ UNCHANGED << is_stopping, nodes, transposition_table, killer_moves,
                    move_evaluation_cache, game_board, scenario, pc, stack, ret, id,
                    returned, board_vars >>

TableNext ==
    \/ TTStoreCall
    \/ EvalCacheStoreCall

\* both tables as Minimax::new builds them
TableInit == Init /\ game_board.pos = 10

TableSpec == TableInit /\ [][TableNext]_vars

\* iterative_deepening over searches that may return any score
Scores == {-300, -100, -50, -25, 0, 25, 50, 100, 300}

\* lines 200, 214: self.search(...) returns some score
SearchReturns ==
    /\ pc \in {"depth1", "aspiration"} /\ Len(stack) = 1 /\ Top.phase = "enter"
    /\ \E value \in Scores :
         /\ stack' = << >>
         /\ ret' = << SearchResult(value, << >>) >>
    /\ UNCHANGED << is_stopping, nodes, transposition_table, killer_moves,
                    evaluation_cache, move_evaluation_cache, game_board, scenario,
                    pc, id, returned, obs, board_vars >>

AspirationNext ==
    \/ IterativeDeepening
    \/ DepthOneDone
    \/ NextDepth
    \/ AspirationResult
    \/ ElapsedCheck
    \/ Finish
    \/ Stop
    \/ SearchReturns

AspirationSpec == TableInit /\ [][AspirationNext]_vars

\* iterative_deepening called with a max_depth at the size of the killer
\* table: the largest depth that has a row and the first that has none (a
\* larger u8 passes through it, the for loop of line 205 climbing by one)
KillerDepths == {KILLER_ROWS - 1, KILLER_ROWS}

KillerIterativeDeepening == IterativeDeepeningTo(KillerDepths)

KillerNext ==
    \/ KillerIterativeDeepening
    \/ DepthOneDone
    \/ NextDepth
    \/ AspirationResult
    \/ ElapsedCheck
    \/ Finish
    \/ Stop
    \/ SearchEnter
    \/ SearchQuiescenceReturn
    \/ SearchMakeMove
    \/ SearchResearch
    \/ SearchUnmakeMove
    \/ SearchStore
    \/ QuiescenceEnter
    \/ QuiescenceMakeMove
    \/ QuiescenceUnmakeMove
    \/ QuiescenceReturn
    \/ KillerPanic

\* the search starts at position 0, whose reduced late moves are searched again
KillerInit ==
    /\ Init
    /\ game_board.pos = 0
    /\ scenario = CHOOSE sc \in Scenarios : TRUE

KillerSpec == KillerInit /\ [][KillerNext]_vars

\* the perft tests on the chess board; the search stays idle
BoardInit ==
    /\ SearchInit
    /\ scenario = << 0, 10, -20, 30, 0, -40, 20, 50, -70, 80 >>
    /\ \E c \in PerftCases : BoardIdle(c)

BoardNext ==
    \/ TestPerft
    \/ PerftEnter
    \/ PerftMakeMove
    \/ PerftUnmakeMove
    \/ PerftReturn
    \/ TestResult

BoardSpec == BoardInit /\ [][BoardNext]_vars

-----------------------------------------------------------------------------
(* Claims about the board, the move generators and perft                     *)

PerftMatchesPublished ==
    (test.pc = "done" /\ test.name \in Published) =>
        \A i \in 1 .. Len(test.results) : test.results[i] = expected(test.name, test.depth)

\* the side to move is in single check by the pawn that has just made a
\* double push
in_double_push_check(b) ==
    /\ b.check[b.turn].checked /\ ~b.check[b.turn].double_checked
    /\ b.en_passant # << >>
    /\ b.check[b.turn].block_mask = { b.en_passant[1] + 8 * forward(opposite(b.turn)) }

\* C3: in single check by a pawn that has just made a double push, the legal
\* move list holds no move that leaves the own king attacked, and it holds
\* exactly 7 moves in 8/8/8/1Ppp3r/1K3p1k/8/4P1P1/1R6 w - c6 0 3.
DoublePushCheckMovesAreSafe ==
    in_double_push_check(board) =>
        /\ \A m \in get_total_legal_moves(board) :
              ~make_move(board, m).check[m.piece_color].checked
        /\ board = from_fen(FenEnPassantCheck)
              => Cardinality(get_total_legal_moves(board)) = 7

\* C4: after Qd1-a4+ from rnbqkbnr/ppp1pppp/3p4/8/2P5/8/PP1PPPPP/RNBQKBNR
\* the block mask of Black has exactly 4 squares and get_block_moves returns
\* exactly 6 moves for Black.
BlockMovesAfterQueenCheck ==
    (test.name = "blocks" /\ Len(perft_stack) = 2 /\ At(board, 32) = "Q") =>
        /\ Cardinality(get_check(board, "Black").block_mask) = 4
        /\ Cardinality(get_block_moves(board, "Black")) = 6

\* the generators of src/pieces for the piece on a square
piece_generators(b, s) ==
    CASE piece_type_of(At(b, s)) = "Knight" -> { get_legal_moves_knight(b, s) }
      [] piece_type_of(At(b, s)) = "Bishop" ->
            { get_legal_moves_bishop_bitboard(b, s), get_legal_moves_bishop(b, s) }
      [] piece_type_of(At(b, s)) = "Rook" -> { get_legal_moves_rook(b, s) }
      [] piece_type_of(At(b, s)) = "Queen" -> { get_legal_moves_queen(b, s) }
      [] OTHER -> {}

\* C5: when the check info of a colour has double_checked set, the knight,
\* bishop, rook and queen generators return no move for any piece of that
\* colour.
DoubleCheckOnlyKingMoves ==
    \A c \in Colors :
        board.check[c].double_checked =>
            \A s \in pieces_of(board, c) : \A moves \in piece_generators(board, s) : moves = {}

\* a move has left the side to move in double check with a knight, a bishop,
\* a rook and a queen on the board
DoubleCheckReached ==
    /\ Len(perft_stack) = 2
    /\ board.check[board.turn].double_checked
    /\ {"Knight", "Bishop", "Rook", "Queen"}
          \subseteq { piece_type_of(At(board, s)) : s \in pieces_of(board, board.turn) }

\* the squares from the king of a pin up to and including the pinning piece,
\* without the square of the pinned piece
pin_line(b, p) ==
    LET at(i) == Square(Rank(p.to) - p.dir.y * i, File(p.to) - p.dir.x * i)
        on_board(i) == in_bounds(Rank(p.to) - p.dir.y * i, File(p.to) - p.dir.x * i)
    IN  { at(i) : i \in { k \in 1 .. 7 :
                            /\ on_board(k)
                            /\ at(k) # p.position
                            /\ \A j \in 1 .. k - 1 :
                                  at(j) = p.position \/ At(b, at(j)) = "." } }

\* C6: every move the generators return for a piece that is_pinned reports
\* as pinned ends on the pin line, between the own king and the pinning
\* piece, the pinner's square included.
PinnedMovesStayOnPinLine ==
    \A p \in board.pins :
        is_pinned(board, Rank(p.position), File(p.position)) # << >> =>
            \A moves \in piece_generators(board, p.position) :
                \A m \in moves : m.to \in pin_line(board, p)

\* after a move, a pinned bishop and a pinned queen have moves
PinnedPiecesMove ==
    /\ Len(perft_stack) = 2
    /\ \E p \in board.pins :
          /\ piece_type_of(At(board, p.position)) = "Bishop"
          /\ get_legal_moves_bishop_bitboard(board, p.position) # {}
    /\ \E p \in board.pins :
          /\ piece_type_of(At(board, p.position)) = "Queen"
          /\ get_legal_moves_queen(board, p.position) # {}


-----------------------------------------------------------------------------
(* Claims about the search                                                   *)

\* is move m one of the legal moves of position p
IsLegalIn(p, m) == \E k \in 1 .. Len(LegalMoves(p)) : LegalMoves(p)[k].m = m

\* C7: a transposition-table best_move that search returns as the line of the
\* current node is a legal move of the current position, also when the entry
\* was stored for another position that maps to the same slot.
TTBestMoveIsLegal ==
    obs.tt_hit # << >> => IsLegalIn(obs.tt_hit[1].pos, obs.tt_hit[1].move)

\* C8: when iterative_deepening returns, is_stopping is false and the result
\* returned comes from a search that ran to completion, never from one cut
\* short by the stop flag.
StopReturnsCompletedDepth ==
    pc = "done" => ~is_stopping /\ ~obs.best_partial

\* C9: an aspiration loop that was not stopped ends only by committing a
\* result strictly inside the window it was searched with.
AspirationEndsByCommit ==
    pc = "elapsed" => obs.asp_exit \in {"commit", "stop"}

\* C10: once a hash comparison after unmake_move has failed, the search does
\* not go on to return a normal SearchResult.
DivergenceAbortsSearch ==
    obs.diverged => returned = << >>


\* C11: after store_killer_move(m, depth) for a quiet move that caused a beta
\* cutoff, slot 0 of row depth holds m (slot 0 differed from m, empty included,
\* so m was shifted in; or it already was m): slot 0 is populated from the
\* first quiet cutoff at that depth on
KillerStoredOnQuietCutoff ==
    (obs.cutoff # << >> /\ ~IsCapture(obs.cutoff[1].move))
        => killer_moves[obs.cutoff[1].depth][1] = << obs.cutoff[1].move >>


\* C12: a search node that probes the transposition table and finds in the slot
\* of the board's hash an entry with entry.depth >= depth returns at once, with
\* no move generated or searched: the stored score for a PV entry, beta for a Cut
\* entry whose score is >= beta, alpha for an All entry whose score is <= alpha;
\* in every other case (no entry, shallower entry, bound not applicable) the
\* node is searched normally
ProbeFollowsEntry ==
    obs.probe # << >> =>
        LET p == obs.probe[1]
            e == p.entry
            deep == e # << >> /\ e[1].depth >= p.depth
        IN  IF deep /\ e[1].node_type = "PV"
            THEN p.outcome = "return" /\ p.value = e[1].score
            ELSE IF deep /\ e[1].node_type = "Cut" /\ e[1].score >= p.beta
            THEN p.outcome = "return" /\ p.value = p.beta
            ELSE IF deep /\ e[1].node_type = "All" /\ e[1].score <= p.alpha
            THEN p.outcome = "return" /\ p.value = p.alpha
            ELSE p.outcome = "search"

\* a search node returned beta on the Cut entry its probe found
ProbeReturnedOnBound ==
    /\ obs.probe # << >>
    /\ obs.probe[1].outcome = "return"
    /\ obs.probe[1].entry[1].node_type = "Cut"


\* C13: EvalCache::get(h) returns a result only when the slot of h holds an
\* entry stored under exactly h, and then the result stored last; a hash never
\* stored (a fresh cache included) gets None; contains(h) holds exactly when
\* get(h) is Some
CacheGetReturnsStored ==
    \A h \in DOMAIN obs.stored :
        /\ EvalCacheGet(evaluation_cache, h) = obs.stored[h]
        /\ EvalCacheContains(evaluation_cache, h)
               <=> EvalCacheGet(evaluation_cache, h) # << >>

\* C14: TranspositionTable::store into an occupied slot replaces the entry
\* exactly when the new depth is >= the stored depth and leaves the table
\* unchanged otherwise; an empty slot is always filled; so the depth held in a
\* slot never decreases, and the capacity (a power of two, mask = capacity - 1)
\* never changes
StoreKeepsDeeperEntry ==
    /\ DOMAIN transposition_table = 0 .. 2 ^ TTBits - 1
    /\ obs.store # << >> =>
           LET s == obs.store[1]
               i == s.hash % (2 ^ TTBits)
               old == s.before[i]
           IN  /\ transposition_table[i] =
                      IF old = << >> \/ s.node.depth >= old[1].depth
                      THEN << s.node >> ELSE old
               /\ \A j \in DOMAIN transposition_table \ {i} :
                      transposition_table[j] = s.before[j]
               /\ old # << >> =>
                      /\ transposition_table[i] # << >>
                      /\ transposition_table[i][1].depth >= old[1].depth

\* a shallower node was stored over a deeper entry, which stayed
DeeperEntryKept ==
    /\ obs.store # << >>
    /\ LET s == obs.store[1]
           i == s.hash % (2 ^ TTBits)
       IN  /\ s.before[i] # << >>
           /\ s.node.depth < s.before[i][1].depth
           /\ s.node # s.before[i][1]
           /\ transposition_table[i] = s.before[i]


\* C15: a quiescence call with alpha <= beta returns a value within
\* [alpha, beta]: beta at a maximizer whose stand-pat evaluation is >= beta,
\* alpha at a minimizer whose stand-pat evaluation is <= alpha, and after the
\* captures a value neither below the incoming alpha nor above the incoming beta
QuiescenceWithinWindow ==
    obs.quiescence # << >> =>
        LET q == obs.quiescence[1] IN
        q.alpha <= q.beta =>
            /\ q.alpha <= q.value /\ q.value <= q.beta
            /\ (q.maximizer /\ q.stand_pat >= q.beta) => q.value = q.beta
            /\ (~q.maximizer /\ q.stand_pat <= q.alpha) => q.value = q.alpha

\* a quiescence node searched a capture and returned its score, strictly
\* inside the window it was given
QuiescenceSearchedCaptures ==
    /\ obs.quiescence # << >>
    /\ obs.quiescence[1].searched >= 1
    /\ obs.quiescence[1].alpha < obs.quiescence[1].value
    /\ obs.quiescence[1].value < obs.quiescence[1].beta
    /\ obs.quiescence[1].value # obs.quiescence[1].stand_pat


\* the largest / smallest element of a non-empty set of numbers
Maximum(S) == CHOOSE x \in S : \A y \in S : y <= x

Minimum(S) == CHOOSE x \in S : \A y \in S : x <= y

RECURSIVE QuiescenceValue(_, _, _)
\* the value of quiescence over the full window: stand pat or the best capture
QuiescenceValue(sc, p, maximizer) ==
    LET captures == QuiescenceMoves(p)
        values == {StaticEval(sc, p)} \cup
                  {QuiescenceValue(sc, captures[k].to, ~maximizer) :
                       k \in DOMAIN captures}
    IN  IF maximizer THEN Maximum(values) ELSE Minimum(values)

RECURSIVE MinimaxValue(_, _, _, _)
\* the depth-d minimax value of position p: every move searched at depth - 1,
\* quiescence at the leaves
MinimaxValue(sc, p, depth, maximizer) ==
    IF GameOver(p) \/ depth = 0 THEN QuiescenceValue(sc, p, maximizer)
    ELSE LET moves == LegalMoves(p)
             values == {MinimaxValue(sc, moves[k].to, depth - 1, ~maximizer) :
                            k \in DOMAIN moves}
         IN  IF maximizer THEN Maximum(values) ELSE Minimum(values)

\* C16: whenever search stores a transposition-table entry at depth d, at a
\* maximizing or a minimizing node, the node type matches what the score means:
\* Cut is a lower bound on the depth-d minimax value of the position, All an
\* upper bound, PV the exact value.  Checked on the depth-1 nodes of searches
\* no stop request cut short: their children are quiescence values.
NodeTypeMatchesScore ==
    obs.node # << >> =>
        LET n == obs.node[1]
            v == MinimaxValue(scenario, n.pos, n.depth, n.maximizer)
        IN  (n.depth = 1 /\ ~n.partial) =>
                /\ n.node_type = "Cut" => n.score <= v
                /\ n.node_type = "All" => n.score >= v
                /\ n.node_type = "PV" => n.score = v


\* C17: the stop flag is polled at the top of every node: once is_stopping is
\* set, every node entered afterwards, alpha-beta or quiescence, returns
\* without calling make_move
StopPolledAtEveryNode ==
    \A k \in DOMAIN stack : stack[k].stopped => stack[k].history = << >>


\* C18: late-move reduction is applied at every interior node with depth >= 3,
\* maximizing and minimizing alike: a move at index >= 3 that is neither a
\* capture nor a check is first searched at the child depth reduced by
\* min(index / 6, 2) below depth - 1; moves at index < 3, captures and checks
\* are searched at depth - 1
LateMovesReduced ==
    \A k \in DOMAIN stack :
        LET f == stack[k] IN
        (f.fn = "search" /\ f.phase = "child") =>
            LET i == f.i - 1
                m == f.moves[f.i].m
            IN  IF f.depth >= 3 /\ i >= 3 /\ ~IsCapture(m) /\ ~GivesCheck(m)
                THEN f.new_depth = f.depth - 1 - Min2(i \div 6, 2)
                ELSE f.new_depth = f.depth - 1

\* C19: the quiescence recursion is bounded: started with a budget of 8, it
\* never recurses more than 8 plies, no quiescence call is entered with a
\* negative remaining depth
QuiescenceDepthBounded ==
    \A k \in DOMAIN stack :
        stack[k].fn = "quiescence" => stack[k].depth >= 0


\* C20: for every slider generator (bishop, rook, queen) and every position, no
\* returned move passes through a piece: the squares strictly between origin
\* and destination are empty and the destination is empty or holds an enemy
\* piece, the first occupied square ending the generation in its direction
SlidersStopAtPieces ==
    \A c \in Colors : \A s \in pieces_of(board, c) :
        piece_type_of(At(board, s)) \in {"Bishop", "Rook", "Queen"} =>
            \A moves \in piece_generators(board, s) : \A m \in moves :
                /\ \A q \in between(s, m.to) : At(board, q) = "."
                /\ At(board, m.to) = "." \/ color_of(At(board, m.to)) # c


\* C21: when the king of the side to move is in single check (block_mask
\* non-empty, not double-checked), every move the queen, bishop and rook
\* generators return has its destination inside block_mask
SliderMovesInsideBlockMask ==
    LET c == board.turn
        info == board.check[c]
        moves_of(s) ==
            CASE piece_type_of(At(board, s)) = "Queen" -> get_legal_moves_queen(board, s)
              [] piece_type_of(At(board, s)) = "Bishop" ->
                    get_legal_moves_bishop_bitboard(board, s)
              [] piece_type_of(At(board, s)) = "Rook" -> get_legal_moves_rook(board, s)
              [] OTHER -> {}
    IN  (info.block_mask # {} /\ ~info.double_checked) =>
            \A s \in pieces_of(board, c) : \A m \in moves_of(s) :
                m.to \in info.block_mask


\* the pin a slider on s holds along dir by the rule of C22: the opposing king
\* stands on the line and exactly one piece, of the king's colour, between
expected_pins(b, s, dir) ==
    LET color == color_of(At(b, s))
        line == { i \in 1 .. 7 : in_bounds(Rank(s) + dir.y * i, File(s) + dir.x * i) }
        at(i) == Square(Rank(s) + dir.y * i, File(s) + dir.x * i)
        kings == { i \in line : at(i) \in king_of(b, opposite(color)) }
    IN  IF kings = {} THEN {}
        ELSE LET k == CHOOSE i \in kings : TRUE
                 mid == { i \in 1 .. k - 1 : At(b, at(i)) # "." }
             IN  IF Cardinality(mid) = 1
                    /\ \A i \in mid : color_of(At(b, at(i))) = opposite(color)
                 THEN { [position |-> at(i), dir |-> dir] : i \in mid }
                 ELSE {}

\* the directions a slider walks in its pin function
pin_directions(b, s) ==
    CASE piece_type_of(At(b, s)) = "Rook" -> ROOK_DIRECTIONS
      [] piece_type_of(At(b, s)) = "Bishop" -> BISHOP_DIRECTIONS
      [] piece_type_of(At(b, s)) = "Queen" -> QUEEN_DIRECTIONS
      [] OTHER -> {}

\* C22: for get_pins_queen, get_pins_bishop and get_pins_rook and each of the
\* slider's directions, a pin is recorded iff the walk from the slider towards
\* the opposing king meets exactly one piece of the king's colour and no other
\* piece before the king; the pin names that piece's square and the walked
\* direction; none is recorded with zero or two or more pieces in between
PinsRecordedExactly ==
    \A s \in all_pieces(board) : \A dir \in pin_directions(board, s) :
        { [position |-> pin.position, dir |-> pin.dir] :
              pin \in { q \in get_pins(board, s) : q.dir = dir } }
            = expected_pins(board, s, dir)


\* C23: the score sort gives a move m at a node includes +PV_MOVE iff the
\* transposition-table entry of the current position names m as best move at
\* the time of sorting, whether or not the same move was scored earlier at
\* another node of the same iteration
PvBonusFollowsEntry ==
    obs.sort # << >> =>
        LET q == obs.sort[1] IN
        \A l \in DOMAIN q.scores :
            q.scores[l] >= PV_MOVE
                <=> (q.entry # << >> /\ q.entry[1].best_move = << l >>)


\* C24: the aspiration loop of iterative_deepening terminates for every depth:
\* whatever scores the searches return (fail-low, fail-high or mixed, in any
\* order), the re-searches at one depth are bounded, every failed search
\* doubling the window and a window beyond MAX_WINDOW_WIDTH making the failing
\* bound infinite: after two re-searches the loop has ended
AspirationLoopBounded ==
    /\ obs.researches <= 2
    /\ (pc = "aspiration" /\ obs.researches = 2 /\ stack # << >>) =>
           (id.alpha = Neg(Inf) \/ id.beta = Inf)

\* a depth whose first search failed low and whose second failed high is
\* being searched a third time, the upper bound open
AspirationWidenedTwice ==
    /\ pc = "aspiration" /\ obs.researches = 2 /\ stack # << >>
    /\ id.beta = Inf /\ id.alpha # Neg(Inf)


\* C25: every access to the killer table is in bounds: for every max_depth a
\* caller may pass to iterative_deepening (any u8) and every node depth
\* reached, the row store_killer_move and evaluate_move index is smaller than
\* the number of rows Minimax::new allocates, so the search never panics on a
\* killer lookup
KillerAccessInBounds ==
    /\ \A row \in KillerRows : row < KILLER_ROWS /\ row \in DOMAIN killer_moves
    /\ pc # "panic"

=============================================================================
